---- MODULE Spec2Model ----
(***************************************************************************)
(* CombatCommander (Steamhammer / Locutus): the per-frame allocation of    *)
(* combat units to squads.  One action per step of                         *)
(* CombatCommander::update: the entry (roster, first-call initialization), *)
(* the six allocation policies, the comsat scan, the bunker valve, the     *)
(* registry update and the cancellation valve.                             *)
(*                                                                         *)
(* Positions are points of a line (x only); a unit's distance to a point   *)
(* is the absolute difference.  Regions are intervals of that line.        *)
(***************************************************************************)
EXTENDS Integers, Sequences, FiniteSets, TLC

VARIABLES
    world,                  \* the game being played: unit types, positions, arrival order
    frame,                  \* BWAPI::Broodwar->getFrameCount()
    pc,                     \* the step of update() that runs next
    initialized,            \* _initialized
    goAggressive,           \* _goAggressive
    reconTarget,            \* _reconTarget
    lastReconTargetChange,  \* _lastReconTargetChange
    enemyWorkerAttackedAt,  \* _enemyWorkerAttackedAt
    squads,                 \* _squadData: squad name -> [units, order, priority]
    combatUnits,            \* _combatUnits
    nProduced,              \* how many units of world.arrival have been produced
    dead,                   \* our units that no longer exist
    loaded,                 \* our units that are inside a transport
    scene,                  \* what the collaborators report in this frame
    ran,                    \* the steps update() has run in this call, in order
    issued,                 \* commands given to the game in this call
    ticks,                  \* calls of update() so far
    needs,                  \* what updateBaseDefenseSquads worked out per region in this call
    failed,                 \* the messages of the assertions that have failed
    joined,                 \* the units updateDropSquads added to Drop in this call, in order
    io,                     \* Config::IO: MaxGameRecords, ReadOpponentModel, WriteOpponentModel
    file,                   \* the game records in the opponent model file, oldest first
    pastGameRecords,        \* OpponentModel::_pastGameRecords
    gameRecord,             \* OpponentModel::_gameRecord, the record of the game being played
    games,                  \* the games played before this one
    phase                   \* where the opponent model is: "read", "write" or "over"

vars == <<world, frame, pc, initialized, goAggressive, reconTarget,
          lastReconTargetChange, enemyWorkerAttackedAt, squads, combatUnits,
          nProduced, dead, loaded, scene, ran, issued, ticks, needs, failed, joined,
          io, file, pastGameRecords, gameRecord, games, phase>>

\* The variables of the commander.
commanderVars == <<world, frame, pc, initialized, goAggressive, reconTarget,
                   lastReconTargetChange, enemyWorkerAttackedAt, squads, combatUnits,
                   nProduced, dead, loaded, scene, ran, issued, ticks, needs, failed, joined>>

\* The variables of the opponent model.
opponentModelVars == <<io, file, pastGameRecords, gameRecord, games, phase>>

----------------------------------------------------------------------------
\* Bounds of the model.

\* update() is called at most this many times in a behaviour.
MaxTicks == 5

\* At most this many of our units are lost in a behaviour.
MaxLost == 1

----------------------------------------------------------------------------
\* Program constants.

IdlePriority == 0
AttackPriority == 1
ReconPriority == 2
BaseDefensePriority == 3
ScoutDefensePriority == 4
\* A Drop priority below the defense squads'.
DropPriorityBelowDefense == ReconPriority
DropPriority == 5

AttackRadius == 800
DefensivePositionRadius == 400
ReconTargetTimeout == 40 * 24
ReconRadius == 400
maxWeight == 12
DropRadius == 300
DefendRegionRadius == 32 * 25
TransportSpots == 8
WorkerAttackMemory == 120
StaticDefenseRange == 500
WorkerPullRange == 1000
NonWorkerNearRange == 200
AirStaticWorth == 3
GroundStaticWorth == 6
concernRadius == 300
BuildingRushRange == 1200
IdleRadius == 100

Invalid == -1           \* BWAPI::Positions::Invalid
NoSquad == "(none)"     \* getUnitSquad's nullptr
NoUnit == 0             \* a null BWAPI::Unit

----------------------------------------------------------------------------
\* The unit type catalogue (BWAPI::UnitType), for the types the model uses.

Workers == {"Protoss_Probe", "Terran_SCV", "Zerg_Drone"}
Detectors == {"Protoss_Observer", "Terran_Science_Vessel", "Zerg_Overlord"}
Flyers == {"Protoss_Observer", "Protoss_Shuttle", "Protoss_Corsair", "Protoss_Carrier",
           "Protoss_Scout", "Terran_Science_Vessel", "Terran_Wraith", "Terran_Dropship",
           "Terran_Valkyrie", "Zerg_Overlord", "Zerg_Mutalisk", "Zerg_Scourge"}
Buildings == {"Protoss_Photon_Cannon", "Protoss_Pylon", "Protoss_Gateway",
              "Terran_Barracks", "Terran_Bunker", "Terran_Missile_Turret",
              "Zerg_Sunken_Colony", "Zerg_Spore_Colony", "Zerg_Hatchery"}
AirWeapon == {"Protoss_Dragoon", "Protoss_Corsair", "Protoss_Carrier", "Protoss_Scout",
              "Protoss_Photon_Cannon", "Terran_Marine", "Terran_Wraith",
              "Terran_Valkyrie", "Terran_Missile_Turret", "Terran_Bunker", "Zerg_Hydralisk",
              "Zerg_Mutalisk", "Zerg_Scourge", "Zerg_Spore_Colony"}
GroundWeapon == {"Protoss_Probe", "Protoss_Zealot", "Protoss_Dragoon",
                 "Protoss_Dark_Templar", "Protoss_Carrier", "Protoss_Scout",
                 "Protoss_Photon_Cannon", "Terran_SCV", "Terran_Marine",
                 "Terran_Vulture", "Terran_Siege_Tank_Tank_Mode", "Terran_Wraith",
                 "Terran_Bunker", "Zerg_Drone", "Zerg_Zergling", "Zerg_Hydralisk",
                 "Zerg_Mutalisk", "Zerg_Lurker", "Zerg_Sunken_Colony"}

isWorker(type) == type \in Workers
isDetector(type) == type \in Detectors
isFlyer(type) == type \in Flyers
isBuilding(type) == type \in Buildings
TypeCanAttackAir(type) == type \in AirWeapon
TypeCanAttackGround(type) == type \in GroundWeapon

\* BWAPI::UnitType::spaceProvided
spaceProvided(type) ==
    IF type \in {"Protoss_Shuttle", "Terran_Dropship", "Zerg_Overlord"} THEN 8
    ELSE IF type = "Terran_Bunker" THEN 4
    ELSE 0

\* BWAPI::UnitType::spaceRequired (255 for what no transport carries)
spaceRequired(type) ==
    IF isFlyer(type) \/ isBuilding(type) THEN 255
    ELSE IF type \in {"Protoss_Probe", "Terran_SCV", "Zerg_Drone", "Terran_Marine",
                      "Terran_Medic", "Zerg_Zergling"} THEN 1
    ELSE IF type \in {"Protoss_Zealot", "Protoss_Dark_Templar", "Terran_Vulture",
                      "Zerg_Hydralisk"} THEN 2
    ELSE 4

----------------------------------------------------------------------------
\* The map (BWTA): three regions on a line, each with its center.

Regions == {"home", "natural", "enemy"}

getCenter(r) ==
    CASE r = "home" -> 500
      [] r = "natural" -> 1500
      [] r = "enemy" -> 3500

\* BWTA::getRegion(position)
getRegion(p) ==
    IF p >= 0 /\ p < 1000 THEN "home"
    ELSE IF p >= 1000 /\ p < 2000 THEN "natural"
    ELSE IF p >= 3000 /\ p < 4000 THEN "enemy"
    ELSE "nowhere"

\* BaseLocation::getPosition of the three bases the model names: our main (also
\* the start location), our natural, the enemy's main.
getPosition(base) ==
    CASE base = "main" -> 400
      [] base = "natural" -> 1400
      [] base = "enemyMain" -> 3600

\* LocutusWall::gapCenter, when the wall exists
gapCenter == getPosition("natural") + 200

\* MapGrid::getLeastExplored(byGround)
getLeastExplored(byGround) == IF byGround THEN 2500 ELSE 2700

Abs(x) == IF x < 0 THEN 0 - x ELSE x
\* BWAPI getDistance, on the line
getDistance(p, q) == Abs(p - q)

----------------------------------------------------------------------------
\* Our units.  A unit is its index in world.types; the roster (a Unitset) is
\* walked in index order.

Units == 1 .. Len(world.types)
getType(u) == world.types[u]
unitPosition(u) == world.pos[u]
exists(u) == u \notin dead
isLoaded(u) == u \in loaded
isFlying(u) == isFlyer(getType(u))
CanAttackAir(u) == TypeCanAttackAir(getType(u))
CanAttackGround(u) == TypeCanAttackGround(getType(u))

Min(S) == CHOOSE x \in S : \A y \in S : x <= y

RECURSIVE InOrder(_)
InOrder(S) == IF S = {} THEN <<>> ELSE <<Min(S)>> \o InOrder(S \ {Min(S)})

\* Enemy units (BWAPI::Broodwar->enemy()->getUnits()), walked in id order.
enemyIsFlying(e) == isFlyer(e.type) \/ e.lifted

RECURSIVE EnemiesInOrder(_)
EnemiesInOrder(S) ==
    IF S = {} THEN <<>>
    ELSE LET first == CHOOSE e \in S : \A f \in S : e.id <= f.id
         IN <<first>> \o EnemiesInOrder(S \ {first})

----------------------------------------------------------------------------
\* Squad, SquadOrder and SquadData.

SquadOrder(type, position, radius) == [type |-> type, position |-> position, radius |-> radius]

Squad(order, priority) == [units |-> {}, order |-> order, priority |-> priority]

squadExists(sq, name) == name \in DOMAIN sq

\* SquadData::addSquad; the name must be new.
addSquad(sq, name, squad) == [n \in DOMAIN sq \cup {name} |-> IF n = name THEN squad ELSE sq[n]]

\* The assertion in SquadData::addSquad: what fails when name is added to sq.
addSquadFails(sq, name) == IF name \in DOMAIN sq THEN {"addSquad: " \o name} ELSE {}

\* The assertion in SquadData::getSquad: what fails when the names are looked up.
getSquadFails(sq, names) == {"getSquad: " \o n : n \in names \ DOMAIN sq}

addUnit(sq, name, u) == [sq EXCEPT ![name].units = @ \cup {u}]
removeUnit(sq, name, u) == [sq EXCEPT ![name].units = @ \ {u}]
clear(sq, name) == [sq EXCEPT ![name].units = {}]
setSquadOrder(sq, name, order) == [sq EXCEPT ![name].order = order]
containsUnit(sq, name, u) == u \in sq[name].units
isEmpty(sq, name) == sq[name].units = {}
hasDetector(sq, name) == \E u \in sq[name].units : isDetector(getType(u))
hasCombatUnits(sq, name) == \E u \in sq[name].units : ~isDetector(getType(u))
containsUnitType(sq, name, type) == \E u \in sq[name].units : getType(u) = type
hasAir(sq, name) == \E u \in sq[name].units : isFlying(u)
hasGround(sq, name) == \E u \in sq[name].units : ~isFlying(u)
canAttackAir(sq, name) == \E u \in sq[name].units : CanAttackAir(u)
canAttackGround(sq, name) == \E u \in sq[name].units : CanAttackGround(u)

\* The squads that hold u.
squadsOf(sq, u) == {n \in DOMAIN sq : u \in sq[n].units}

\* SquadData::getUnitSquad: a squad that holds u, or none.
getUnitSquad(sq, u) == IF squadsOf(sq, u) = {} THEN NoSquad ELSE CHOOSE n \in squadsOf(sq, u) : TRUE

\* SquadData::canAssignUnitToSquad: u is in no squad whose priority is at
\* least the asking squad's.
canAssignUnitToSquad(sq, u, name) ==
    \A n \in squadsOf(sq, u) : sq[n].priority < sq[name].priority

\* SquadData::assignUnitToSquad: out of its current squad, into the target.
assignUnitToSquad(sq, u, name) ==
    LET previous == getUnitSquad(sq, u)
        out == IF previous = NoSquad THEN sq ELSE removeUnit(sq, previous, u)
    IN addUnit(out, name, u)

----------------------------------------------------------------------------
\* CombatCommander::updateIdleSquad

\* updateIdleSquad without the admission test: every roster unit is added.
RECURSIVE IdleLoopAddsAll(_, _)
IdleLoopAddsAll(sq, us) ==
    IF us = <<>> THEN sq ELSE IdleLoopAddsAll(addUnit(sq, "Idle", Head(us)), Tail(us))

\* updateIdleSquad leaving the loop at the first unit that has a squad.
RECURSIVE IdleLoopStopsEarly(_, _)
IdleLoopStopsEarly(sq, us) ==
    IF us = <<>> THEN sq
    ELSE IF canAssignUnitToSquad(sq, Head(us), "Idle")
    THEN IdleLoopStopsEarly(addUnit(sq, "Idle", Head(us)), Tail(us))
    ELSE sq

RECURSIVE IdleLoop(_, _)
IdleLoop(sq, us) ==
    IF us = <<>> THEN sq
    ELSE LET unit == Head(us)
         IN IdleLoop(IF canAssignUnitToSquad(sq, unit, "Idle")
                     THEN addUnit(sq, "Idle", unit)
                     ELSE sq,
                     Tail(us))

updateIdleSquad(sq) == IdleLoop(sq, InOrder(combatUnits))

----------------------------------------------------------------------------
\* Remembered enemy units (InformationManager's UnitInfo), walked in id order.

RECURSIVE InfoInOrder(_)
InfoInOrder(S) ==
    IF S = {} THEN <<>>
    ELSE LET first == CHOOSE i \in S : \A j \in S : i.id <= j.id
         IN <<first>> \o InfoInOrder(S \ {first})

\* The last position of the first remembered enemy building that has not gone
\* from it; Invalid if there is none.
RECURSIVE firstKnownBuilding(_)
firstKnownBuilding(infos) ==
    IF infos = <<>> THEN Invalid
    ELSE LET ui == Head(infos)
         IN IF isBuilding(ui.type) /\ ui.lastPosition # Invalid /\ ~ui.goneFromLastPosition
            THEN ui.lastPosition
            ELSE firstKnownBuilding(Tail(infos))

\* CombatCommander::getDropLocation
getDropLocation ==
    IF scene.enemyMainKnown THEN getPosition("enemyMain")
    ELSE IF firstKnownBuilding(InfoInOrder(scene.known)) # Invalid
         THEN firstKnownBuilding(InfoInOrder(scene.known))
         ELSE getLeastExplored(FALSE)

\* CombatCommander::unitIsGoodToDrop
unitIsGoodToDrop(u) == getType(u) \in {"Protoss_Dark_Templar", "Terran_Vulture"}

\* A transport, as updateDropSquads recognizes one.
isTransport(u) == isFlying(u) /\ spaceProvided(getType(u)) > 0

\* The walk over the squad's units, never noting a unit outside the transport.
RECURSIVE DropScanForgetsUnloaded(_, _)
DropScanForgetsUnloaded(st, us) ==
    IF us = <<>> THEN st
    ELSE LET unit == Head(us)
             next ==
                 IF ~exists(unit) THEN st
                 ELSE IF isTransport(unit) THEN [st EXCEPT !.transportUnit = unit]
                 ELSE [st EXCEPT
                          !.transportSpotsRemaining = @ - spaceRequired(getType(unit))]
         IN DropScanForgetsUnloaded(next, Tail(us))

\* The walk over the squad's units, lost units counted with the living.
RECURSIVE DropScanCountsLost(_, _)
DropScanCountsLost(st, us) ==
    IF us = <<>> THEN st
    ELSE LET unit == Head(us)
             next ==
                 IF isTransport(unit) THEN [st EXCEPT !.transportUnit = unit]
                 ELSE [st EXCEPT
                          !.transportSpotsRemaining = @ - spaceRequired(getType(unit)),
                          !.anyUnloadedUnits = @ \/ ~isLoaded(unit)]
         IN DropScanCountsLost(next, Tail(us))

\* updateDropSquads, the walk over the squad's units: the transport found, the
\* transport spots remaining, whether a unit is still outside the transport.
RECURSIVE DropScan(_, _)
DropScan(st, us) ==
    IF us = <<>> THEN st
    ELSE LET unit == Head(us)
             next ==
                 IF ~exists(unit) THEN st
                 ELSE IF isTransport(unit) THEN [st EXCEPT !.transportUnit = unit]
                 ELSE [st EXCEPT
                          !.transportSpotsRemaining = @ - spaceRequired(getType(unit)),
                          !.anyUnloadedUnits = @ \/ ~isLoaded(unit)]
         IN DropScan(next, Tail(us))

\* The walk over the roster that takes a unit good to drop whether it fits or not.
RECURSIVE DropRecruitOverfull(_, _)
DropRecruitOverfull(st, us) ==
    IF us = <<>> THEN st
    ELSE LET unit == Head(us)
             next ==
                 IF /\ st.transportUnit = NoUnit
                    /\ spaceProvided(getType(unit)) > 0
                    /\ isFlying(unit)
                    /\ canAssignUnitToSquad(st.sq, unit, "Drop")
                 THEN [st EXCEPT !.sq = assignUnitToSquad(st.sq, unit, "Drop"),
                                 !.transportUnit = unit,
                                 !.joined = Append(@, unit)]
                 ELSE IF /\ unitIsGoodToDrop(unit)
                         /\ canAssignUnitToSquad(st.sq, unit, "Drop")
                 THEN [st EXCEPT !.sq = assignUnitToSquad(st.sq, unit, "Drop"),
                                 !.transportSpotsRemaining = @ - spaceRequired(getType(unit)),
                                 !.joined = Append(@, unit)]
                 ELSE st
         IN DropRecruitOverfull(next, Tail(us))

\* The walk over the roster that never takes a transport.
RECURSIVE DropRecruitCargoOnly(_, _)
DropRecruitCargoOnly(st, us) ==
    IF us = <<>> THEN st
    ELSE LET unit == Head(us)
             next ==
                 IF /\ spaceRequired(getType(unit)) <= st.transportSpotsRemaining
                    /\ unitIsGoodToDrop(unit)
                    /\ canAssignUnitToSquad(st.sq, unit, "Drop")
                 THEN [st EXCEPT !.sq = assignUnitToSquad(st.sq, unit, "Drop"),
                                 !.transportSpotsRemaining = @ - spaceRequired(getType(unit)),
                                 !.joined = Append(@, unit)]
                 ELSE st
         IN DropRecruitCargoOnly(next, Tail(us))

\* updateDropSquads, the walk over the roster that looks for more units: the
\* registry, the transport, the spots remaining, and the units added in order.
RECURSIVE DropRecruit(_, _)
DropRecruit(st, us) ==
    IF us = <<>> THEN st
    ELSE LET unit == Head(us)
             next ==
                 IF /\ st.transportUnit = NoUnit
                    /\ spaceProvided(getType(unit)) > 0
                    /\ isFlying(unit)
                    /\ canAssignUnitToSquad(st.sq, unit, "Drop")
                 THEN [st EXCEPT !.sq = assignUnitToSquad(st.sq, unit, "Drop"),
                                 !.transportUnit = unit,
                                 !.joined = Append(@, unit)]
                 ELSE IF /\ spaceRequired(getType(unit)) <= st.transportSpotsRemaining
                         /\ unitIsGoodToDrop(unit)
                         /\ canAssignUnitToSquad(st.sq, unit, "Drop")
                 THEN [st EXCEPT !.sq = assignUnitToSquad(st.sq, unit, "Drop"),
                                 !.transportSpotsRemaining = @ - spaceRequired(getType(unit)),
                                 !.joined = Append(@, unit)]
                 ELSE st
         IN DropRecruit(next, Tail(us))

\* Once the order is Drop: back to Hold when the transport is lost.
dropResetsWithoutTransport(sq) ==
    IF \E t \in sq["Drop"].units : exists(t) /\ isTransport(t) THEN sq
    ELSE setSquadOrder(sq, "Drop", SquadOrder("Hold", getPosition("main"), AttackRadius))

\* Once the order is Drop: a new Drop order in case the target has changed.
dropReissuesOrder(sq) ==
    setSquadOrder(sq, "Drop", SquadOrder("Drop", getDropLocation, DropRadius))

\* What updateDropSquads does once the order is Drop: nothing.
dropAlreadyOrdered(sq) == sq

\* updateDropSquads, what the squad is found to hold.
dropScanned(sq) ==
    DropScan([transportUnit |-> NoUnit,
              transportSpotsRemaining |-> TransportSpots,
              anyUnloadedUnits |-> FALSE],
             InOrder(sq["Drop"].units))

\* updateDropSquads, the search for more units.
dropRecruited(sq) ==
    DropRecruit([sq |-> sq,
                 transportUnit |-> dropScanned(sq).transportUnit,
                 transportSpotsRemaining |-> dropScanned(sq).transportSpotsRemaining,
                 joined |-> <<>>],
                InOrder(combatUnits))

\* The units a call of updateDropSquads adds to the Drop squad, in order.
dropJoins(sq) ==
    IF ~squadExists(sq, "Drop") THEN <<>>
    ELSE IF sq["Drop"].order.type = "Drop" THEN <<>>
    ELSE IF /\ dropScanned(sq).transportUnit # NoUnit
            /\ dropScanned(sq).transportSpotsRemaining = 0
    THEN <<>>
    ELSE dropRecruited(sq).joined

\* CombatCommander::updateDropSquads
updateDropSquads(sq) ==
    IF ~squadExists(sq, "Drop") THEN sq
    ELSE IF sq["Drop"].order.type = "Drop" THEN dropAlreadyOrdered(sq)
    ELSE LET scan == dropScanned(sq)
         IN IF scan.transportUnit # NoUnit /\ scan.transportSpotsRemaining = 0
            THEN IF scan.anyUnloadedUnits
                 THEN setSquadOrder(sq, "Drop",
                          SquadOrder("Load", unitPosition(scan.transportUnit), AttackRadius))
                 ELSE setSquadOrder(sq, "Drop",
                          SquadOrder("Drop", getDropLocation, DropRadius))
            ELSE dropRecruited(sq).sq

----------------------------------------------------------------------------
\* CombatCommander::updateScoutDefenseSquad

\* A unit in the main region that is not a scout: no overlord, and no worker
\* unless an enemy worker attacked in the last 120 frames.
notAScout(e) ==
    /\ e.type # "Zerg_Overlord"
    /\ (~isWorker(e.type) \/ enemyWorkerAttackedAt > frame - WorkerAttackMemory)

chaseScout ==
    ~\E e \in scene.enemies :
        getRegion(e.pos) = getRegion(getPosition("main")) /\ notAScout(e)

\* The recruiting loop without its break: every dragoon of the main is taken.
RECURSIVE ScoutRecruitAll(_, _)
ScoutRecruitAll(sq, us) ==
    IF us = <<>> THEN sq
    ELSE LET unit == Head(us)
         IN IF /\ getType(unit) = "Protoss_Dragoon"
               /\ getRegion(unitPosition(unit)) = getRegion(getPosition("main"))
               /\ canAssignUnitToSquad(sq, unit, "ScoutDefense")
            THEN ScoutRecruitAll(assignUnitToSquad(sq, unit, "ScoutDefense"), Tail(us))
            ELSE ScoutRecruitAll(sq, Tail(us))

RECURSIVE ScoutRecruit(_, _)
ScoutRecruit(sq, us) ==
    IF us = <<>> THEN sq
    ELSE LET unit == Head(us)
         IN IF /\ getType(unit) = "Protoss_Dragoon"
               /\ getRegion(unitPosition(unit)) = getRegion(getPosition("main"))
               /\ canAssignUnitToSquad(sq, unit, "ScoutDefense")
            THEN assignUnitToSquad(sq, unit, "ScoutDefense")
            ELSE ScoutRecruit(sq, Tail(us))

updateScoutDefenseSquad(sq) ==
    IF world.ScoutDefenseRadius = 0 \/ combatUnits = {} THEN sq
    ELSE IF ~chaseScout
         THEN IF ~isEmpty(sq, "ScoutDefense") THEN clear(sq, "ScoutDefense") ELSE sq
    ELSE IF isEmpty(sq, "ScoutDefense") THEN ScoutRecruit(sq, InOrder(combatUnits))
    ELSE sq

----------------------------------------------------------------------------
\* CombatCommander::findClosestDefender

\* The scan of the roster without the admission test.
RECURSIVE ClosestScanNoAdmission(_, _, _, _, _, _)
ClosestScanNoAdmission(st, us, sq, name, pos, opts) ==
    IF us = <<>> THEN st
    ELSE LET unit == Head(us)
             dist == getDistance(unitPosition(unit), pos)
             next ==
                 IF \/ (opts.flyingDefender /\ ~CanAttackAir(unit))
                    \/ (~opts.flyingDefender /\ ~CanAttackGround(unit))
                 THEN st
                 ELSE IF isWorker(getType(unit))
                 THEN IF ~opts.pullWorkers \/ dist > WorkerPullRange THEN st
                      ELSE IF dist < st.minWorkerDistance
                      THEN [st EXCEPT !.closestWorker = unit, !.minWorkerDistance = dist]
                      ELSE st
                 ELSE IF dist < st.minDistance
                 THEN [st EXCEPT !.closestDefender = unit, !.minDistance = dist]
                 ELSE st
         IN ClosestScanNoAdmission(next, Tail(us), sq, name, pos, opts)

RECURSIVE ClosestScan(_, _, _, _, _, _)
ClosestScan(st, us, sq, name, pos, opts) ==
    IF us = <<>> THEN st
    ELSE LET unit == Head(us)
             dist == getDistance(unitPosition(unit), pos)
             next ==
                 IF \/ (opts.flyingDefender /\ ~CanAttackAir(unit))
                    \/ (~opts.flyingDefender /\ ~CanAttackGround(unit))
                 THEN st
                 ELSE IF ~canAssignUnitToSquad(sq, unit, name) THEN st
                 ELSE IF isWorker(getType(unit))
                 THEN IF ~opts.pullWorkers \/ dist > WorkerPullRange THEN st
                      ELSE IF dist < st.minWorkerDistance
                      THEN [st EXCEPT !.closestWorker = unit, !.minWorkerDistance = dist]
                      ELSE st
                 ELSE IF dist < st.minDistance
                 THEN [st EXCEPT !.closestDefender = unit, !.minDistance = dist]
                 ELSE st
         IN ClosestScan(next, Tail(us), sq, name, pos, opts)

\* findClosestDefender taking workers whether or not they may be pulled.
findClosestDefenderAnyWorker(sq, name, pos, flyingDefender, pullWorkers) ==
    LET st == ClosestScan([closestDefender |-> NoUnit, minDistance |-> 99999,
                           closestWorker |-> NoUnit, minWorkerDistance |-> 99999],
                          InOrder(combatUnits), sq, name, pos,
                          [flyingDefender |-> flyingDefender, pullWorkers |-> TRUE])
    IN IF /\ st.closestWorker # NoUnit
          /\ \/ st.closestDefender = NoUnit
             \/ (st.minWorkerDistance < st.minDistance /\ st.minDistance > NonWorkerNearRange)
       THEN st.closestWorker
       ELSE st.closestDefender

findClosestDefender(sq, name, pos, flyingDefender, pullWorkers) ==
    LET st == ClosestScan([closestDefender |-> NoUnit, minDistance |-> 99999,
                           closestWorker |-> NoUnit, minWorkerDistance |-> 99999],
                          InOrder(combatUnits), sq, name, pos,
                          [flyingDefender |-> flyingDefender, pullWorkers |-> pullWorkers])
    IN IF /\ st.closestWorker # NoUnit
          /\ \/ st.closestDefender = NoUnit
             \/ (st.minWorkerDistance < st.minDistance /\ st.minDistance > NonWorkerNearRange)
       THEN st.closestWorker
       ELSE st.closestDefender

----------------------------------------------------------------------------
\* CombatCommander::updateDefenseSquadUnits

\* What a member counts for as a ground defender.
groundDefenderWorth(type) ==
    IF isWorker(type) THEN 1
    ELSE IF type = "Protoss_Zealot" THEN 4
    ELSE 5

RECURSIVE SumWorth(_)
SumWorth(us) == IF us = <<>> THEN 0 ELSE groundDefenderWorth(getType(Head(us))) + SumWorth(Tail(us))

RECURSIVE FlyingLoop(_, _, _)
FlyingLoop(st, name, flyingDefendersNeeded) ==
    IF flyingDefendersNeeded <= st.flyingDefendersAdded THEN st
    ELSE LET defenderToAdd ==
                 findClosestDefender(st.sq, name, st.sq[name].order.position, TRUE, FALSE)
         IN IF defenderToAdd = NoUnit THEN st
            ELSE FlyingLoop([st EXCEPT !.sq = assignUnitToSquad(st.sq, defenderToAdd, name),
                                       !.flyingDefendersAdded = @ + 1,
                                       !.failed = IF isWorker(getType(defenderToAdd))
                                                  THEN @ \cup {"flying worker defender"}
                                                  ELSE @],
                            name, flyingDefendersNeeded)

RECURSIVE GroundLoop(_, _, _, _)
GroundLoop(st, name, groundDefendersNeeded, pullWorkers) ==
    IF groundDefendersNeeded <= st.groundDefendersAdded - st.workersInGroup THEN st
    ELSE LET defenderToAdd ==
                 findClosestDefender(st.sq, name, st.sq[name].order.position, FALSE, pullWorkers)
             asserted ==
                 [st EXCEPT !.failed = IF isWorker(getType(defenderToAdd)) /\ ~pullWorkers
                                       THEN @ \cup {"pulled worker defender mistakenly"}
                                       ELSE @]
         IN IF defenderToAdd = NoUnit THEN st
            ELSE IF isWorker(getType(defenderToAdd))
                    /\ groundDefendersNeeded <= st.groundDefendersAdded
            THEN asserted
            ELSE GroundLoop(
                     [asserted EXCEPT !.sq = assignUnitToSquad(st.sq, defenderToAdd, name),
                                      !.groundDefendersAdded =
                                          @ + groundDefenderWorth(getType(defenderToAdd))],
                     name, groundDefendersNeeded, pullWorkers)

\* The count of excess workers lowered without a probe leaving the squad.
RECURSIVE RemoveExcessWorkersKeepsProbe(_, _, _)
RemoveExcessWorkersKeepsProbe(st, name, groundDefendersNeeded) ==
    IF st.groundDefendersAdded > groundDefendersNeeded
       /\ containsUnitType(st.sq, name, "Protoss_Probe")
    THEN RemoveExcessWorkersKeepsProbe([st EXCEPT !.groundDefendersAdded = @ - 1],
                                       name, groundDefendersNeeded)
    ELSE st

RECURSIVE RemoveExcessWorkers(_, _, _)
RemoveExcessWorkers(st, name, groundDefendersNeeded) ==
    IF st.groundDefendersAdded > groundDefendersNeeded
       /\ containsUnitType(st.sq, name, "Protoss_Probe")
    THEN LET probe == Min({u \in st.sq[name].units : getType(u) = "Protoss_Probe"})
         IN RemoveExcessWorkers([st EXCEPT !.sq = removeUnit(st.sq, name, probe),
                                           !.groundDefendersAdded = @ - 1],
                                name, groundDefendersNeeded)
    ELSE st

\* updateDefenseSquadUnits: the registry afterwards (sq) and the assertions that
\* failed on the way (failed).
recruitDefenders(sq, name, flyingDefendersNeeded, groundDefendersNeeded, pullWorkers) ==
    IF flyingDefendersNeeded = 0 /\ groundDefendersNeeded = 0
    THEN [sq |-> clear(sq, name), failed |-> {}]
    ELSE LET members == sq[name].units
             counted == [sq |-> sq,
                         flyingDefendersAdded |-> Cardinality({u \in members : CanAttackAir(u)}),
                         groundDefendersAdded |-> SumWorth(InOrder(members)),
                         workersInGroup |-> Cardinality({u \in members : isWorker(getType(u))}),
                         failed |-> {}]
             flown == FlyingLoop(counted, name, flyingDefendersNeeded)
             grounded == GroundLoop(flown, name, groundDefendersNeeded, pullWorkers)
             result(done) == [sq |-> done.sq, failed |-> done.failed]
         IN result(RemoveExcessWorkers(grounded, name, groundDefendersNeeded))

updateDefenseSquadUnits(sq, name, flyingDefendersNeeded, groundDefendersNeeded, pullWorkers) ==
    recruitDefenders(sq, name, flyingDefendersNeeded, groundDefendersNeeded, pullWorkers).sq

----------------------------------------------------------------------------
\* CombatCommander::updateBaseDefenseSquads

\* BWTA::getRegions(), in the order the policy walks them.
RegionsInOrder == <<"home", "natural", "enemy">>

\* "Base Defense " << regionCenter.x << " " << regionCenter.y (y is 0 on the line)
squadName(regionCenter) == "Base Defense " \o ToString(regionCenter) \o " 0"

\* The region of the enemy's main base, once it is known.
enemyRegion == IF scene.enemyMainKnown THEN getRegion(getPosition("enemyMain")) ELSE "unknown"
mainRegion == getRegion(getPosition("main"))

\* The enemy units of a region, harmless air units and lifted buildings left out.
enemyUnitsInRegion(myRegion) ==
    {e \in scene.enemies :
        /\ e.type \notin {"Zerg_Overlord", "Protoss_Observer"}
        /\ ~e.lifted
        /\ getRegion(e.pos) = myRegion}

\* The first enemy worker of the region is taken for a scout, unless it is
\* attacking or one attacked in the last 120 frames.  The remaining threats,
\* and _enemyWorkerAttackedAt afterwards.
judgeFirstWorker(inRegion, attackedAt) ==
    LET workers == {e \in inRegion : isWorker(e.type)}
    IN IF workers = {} THEN [threats |-> inRegion, attackedAt |-> attackedAt]
       ELSE LET first == CHOOSE e \in workers : \A f \in workers : e.id <= f.id
            IN IF first.attacking THEN [threats |-> inRegion, attackedAt |-> frame]
               ELSE IF attackedAt < frame - WorkerAttackMemory
               THEN [threats |-> inRegion \ {first}, attackedAt |-> attackedAt]
               ELSE [threats |-> inRegion, attackedAt |-> attackedAt]

\* Threat weights without the line for hydralisks and marines.
groundThreatWeightNoRanged(type) ==
    IF isWorker(type) THEN 1
    ELSE IF type = "Zerg_Zergling" THEN 2
    ELSE IF type = "Protoss_Zealot" THEN 5
    ELSE 6

\* What an enemy ground unit adds to the ground defenders needed.
groundThreatWeight(type) ==
    IF isWorker(type) THEN 1
    ELSE IF type = "Zerg_Zergling" THEN 2
    ELSE IF type \in {"Zerg_Hydralisk", "Terran_Marine"} THEN 3
    ELSE IF type = "Protoss_Zealot" THEN 5
    ELSE 6

RECURSIVE SumThreat(_)
SumThreat(es) ==
    IF es = <<>> THEN 0
    ELSE (IF enemyIsFlying(Head(es)) THEN 0 ELSE groundThreatWeight(Head(es).type))
         + SumThreat(Tail(es))

\* std::ceil(n * 1.2): n * 1.2 in double arithmetic is 6n/5 to within an ulp and
\* never above it, so the ceiling is that of the exact quotient.
ceilTimes12(n) == (6 * n + 4) \div 5

Max(a, b) == IF a >= b THEN a ELSE b

\* Static defense counted whether completed or not.
staticDefenseUnfinished(types, myRegion, orderPosition) ==
    {b \in scene.ours :
        /\ b.type \in types
        /\ b.powered
        /\ \/ getRegion(b.pos) = myRegion
           \/ getDistance(orderPosition, b.pos) < StaticDefenseRange}

\* Our completed, powered static defense of the given types that is in the
\* region or within 500 of the defense squad's order position.
staticDefense(types, myRegion, orderPosition) ==
    {b \in scene.ours :
        /\ b.type \in types
        /\ b.completed /\ b.powered
        /\ \/ getRegion(b.pos) = myRegion
           \/ getDistance(orderPosition, b.pos) < StaticDefenseRange}

\* CombatCommander::numZerglingsInOurBase
numZerglingsInOurBase ==
    Cardinality({e \in scene.enemies :
        e.type = "Zerg_Zergling" /\ getDistance(e.pos, getPosition("main")) < concernRadius})

\* CombatCommander::buildingRush
buildingRush ==
    /\ ~scene.weHaveCombatUnits
    /\ \E e \in scene.enemies :
           isBuilding(e.type) /\ getDistance(e.pos, getPosition("main")) < BuildingRushRange

\* Every region defended normally, whatever the posture.
defenseOrderAlwaysNormal(sq, myRegion) ==
    SquadOrder("Defend", getCenter(myRegion), DefendRegionRadius)

\* The order given to the defense squad of a region with threats.
defenseOrder(sq, myRegion) ==
    IF goAggressive \/ myRegion = mainRegion
    THEN SquadOrder("Defend", getCenter(myRegion), DefendRegionRadius)
    ELSE sq["Ground"].order

flyingDefendersNeededFor(threats, myRegion, orderPosition) ==
    Max(2 * Cardinality({e \in threats : enemyIsFlying(e)})
          - AirStaticWorth * Cardinality(staticDefense(
                {"Terran_Missile_Turret", "Protoss_Photon_Cannon", "Zerg_Spore_Colony"},
                myRegion, orderPosition)),
        0)

groundDefendersNeededFor(threats, myRegion, orderPosition) ==
    Max(ceilTimes12(SumThreat(EnemiesInOrder(threats)))
          - GroundStaticWorth * Cardinality(staticDefense(
                {"Protoss_Photon_Cannon", "Zerg_Sunken_Colony"}, myRegion, orderPosition)),
        0)

\* Workers pulled against a rush whatever Config::Micro::WorkersDefendRush says.
pullWorkersForAnyRush(myRegion, orderPosition) ==
    \/ ~goAggressive
    \/ /\ staticDefense({"Protoss_Photon_Cannon", "Zerg_Sunken_Colony"},
                        myRegion, orderPosition) = {}
       /\ numZerglingsInOurBase > 0
    \/ buildingRush

pullWorkersFor(myRegion, orderPosition) ==
    \/ ~goAggressive
    \/ /\ world.WorkersDefendRush
       /\ \/ /\ staticDefense({"Protoss_Photon_Cannon", "Zerg_Sunken_Colony"},
                              myRegion, orderPosition) = {}
             /\ numZerglingsInOurBase > 0
          \/ buildingRush

\* The values of the walk's local variables for a region with threats, when
\* updateDefenseSquadUnits is called: the threats left in enemyUnitsInRegion,
\* groundDefendersNeeded as scaled (before static defense is counted), the
\* three arguments passed, and the position of the squad's order.
regionNeeds(threats, myRegion, orderPosition) ==
    [threats |-> threats,
     scaled |-> ceilTimes12(SumThreat(EnemiesInOrder(threats))),
     flying |-> flyingDefendersNeededFor(threats, myRegion, orderPosition),
     ground |-> groundDefendersNeededFor(threats, myRegion, orderPosition),
     pullWorkers |-> pullWorkersFor(myRegion, orderPosition),
     position |-> orderPosition]

\* One region of the walk.  st holds the registry, _enemyWorkerAttackedAt, the
\* record of the regions' needs and the assertions that have failed.
defendRegion(st, myRegion) ==
    LET name == squadName(getCenter(myRegion))
        judged == judgeFirstWorker(enemyUnitsInRegion(myRegion), st.attackedAt)
    IN IF myRegion = enemyRegion THEN st
       ELSE IF myRegion \notin scene.occupied
       THEN [st EXCEPT !.sq = IF squadExists(st.sq, name) THEN clear(st.sq, name) ELSE st.sq]
       ELSE IF judged.threats = {}
       THEN [sq |-> IF squadExists(st.sq, name) THEN clear(st.sq, name) ELSE st.sq,
             attackedAt |-> judged.attackedAt,
             needs |-> st.needs,
             failed |-> st.failed]
       ELSE IF ~(goAggressive \/ myRegion = mainRegion) /\ ~squadExists(st.sq, "Ground")
       THEN [st EXCEPT !.failed = @ \cup getSquadFails(st.sq, {"Ground"})]
       ELSE LET order == defenseOrder(st.sq, myRegion)
                ordered == IF ~squadExists(st.sq, name)
                           THEN addSquad(st.sq, name, Squad(order, BaseDefensePriority))
                           ELSE setSquadOrder(st.sq, name, order)
                added == IF ~squadExists(st.sq, name) THEN addSquadFails(st.sq, name) ELSE {}
                shouldExist == IF squadExists(ordered, name) THEN {}
                               ELSE {"Squad should exist: " \o name}
                defended(recruited) ==
                    [sq |-> recruited.sq,
                     attackedAt |-> judged.attackedAt,
                     needs |-> (myRegion :> regionNeeds(judged.threats, myRegion,
                                                        order.position))
                                   @@ st.needs,
                     failed |-> st.failed \cup added \cup shouldExist \cup recruited.failed]
            IN defended(recruitDefenders(ordered, name,
                   flyingDefendersNeededFor(judged.threats, myRegion, order.position),
                   groundDefendersNeededFor(judged.threats, myRegion, order.position),
                   pullWorkersFor(myRegion, order.position)))

RECURSIVE RegionLoop(_, _)
RegionLoop(st, rs) ==
    IF rs = <<>> THEN st ELSE RegionLoop(defendRegion(st, Head(rs)), Tail(rs))

\* The closing sweep passing over ScoutDefense.
defendSweepRegionsOnly(sq) ==
    [n \in DOMAIN sq |->
        IF /\ n # "ScoutDefense"
           /\ sq[n].order.type = "Defend"
           /\ sq[n].units # {}
           /\ ~\E e \in scene.enemies :
                  getDistance(e.pos, sq[n].order.position) < sq[n].order.radius
        THEN [sq[n] EXCEPT !.units = {}]
        ELSE sq[n]]

\* The closing sweep: a Defend squad with units and no enemy unit within its
\* order's radius is cleared.
defendSweep(sq) ==
    [n \in DOMAIN sq |->
        IF /\ sq[n].order.type = "Defend"
           /\ sq[n].units # {}
           /\ ~\E e \in scene.enemies :
                  getDistance(e.pos, sq[n].order.position) < sq[n].order.radius
        THEN [sq[n] EXCEPT !.units = {}]
        ELSE sq[n]]

\* The registry, _enemyWorkerAttackedAt and the regions' needs after the policy,
\* and the assertions that failed in it.
updateBaseDefenseSquads(sq) ==
    IF combatUnits = {}
    THEN [sq |-> sq, attackedAt |-> enemyWorkerAttackedAt, needs |-> <<>>, failed |-> {}]
    ELSE LET walked == RegionLoop([sq |-> sq, attackedAt |-> enemyWorkerAttackedAt,
                                   needs |-> <<>>, failed |-> {}],
                                  RegionsInOrder)
         IN [sq |-> defendSweep(walked.sq), attackedAt |-> walked.attackedAt,
             needs |-> walked.needs, failed |-> walked.failed]

----------------------------------------------------------------------------
\* CombatCommander::updateReconSquad

\* CombatCommander::weighReconUnit
weighReconUnit(type) ==
    IF type = "Zerg_Zergling" THEN 2
    ELSE IF type = "Zerg_Hydralisk" THEN 3
    ELSE IF type = "Terran_Marine" THEN 2
    ELSE IF type = "Terran_Medic" THEN 2
    ELSE IF type = "Terran_Vulture" THEN 4
    ELSE IF type = "Terran_Siege_Tank_Tank_Mode" THEN 6
    ELSE IF type = "Terran_Siege_Tank_Siege_Mode" THEN 6
    ELSE IF type = "Protoss_Zealot" THEN 4
    ELSE IF type = "Protoss_Dragoon" THEN 4
    ELSE IF type = "Protoss_Dark_Templar" THEN 4
    ELSE 0

RECURSIVE SumWeight(_)
SumWeight(us) == IF us = <<>> THEN 0 ELSE weighReconUnit(getType(Head(us))) + SumWeight(Tail(us))

\* CombatCommander::getReconLocation offers nextTarget: one of the neutral bases
\* reachable by ground, drawn at random, or Invalid when there is none.
ReconLocations == IF scene.neutralBases = {} THEN {Invalid} ELSE scene.neutralBases

\* The choice of a target that never gives a target up for the time spent on it.
chooseReconTargetNoTimeout(nextTarget) ==
    LET change ==
            IF nextTarget = Invalid THEN TRUE
            ELSE IF reconTarget = Invalid THEN TRUE
            ELSE IF reconTarget \in scene.visible
            THEN ~\E e \in scene.enemies :
                     /\ getDistance(e.pos, reconTarget) <= ReconRadius
                     /\ ~enemyIsFlying(e)
            ELSE FALSE
    IN IF change THEN [target |-> nextTarget, changedAt |-> frame]
       ELSE [target |-> reconTarget, changedAt |-> lastReconTargetChange]

\* CombatCommander::chooseReconTarget: _reconTarget and _lastReconTargetChange
\* afterwards.
chooseReconTarget(nextTarget) ==
    LET change ==
            IF nextTarget = Invalid THEN TRUE
            ELSE IF reconTarget = Invalid THEN TRUE
            ELSE IF frame - lastReconTargetChange >= ReconTargetTimeout THEN TRUE
            ELSE IF reconTarget \in scene.visible
            THEN ~\E e \in scene.enemies :
                     /\ getDistance(e.pos, reconTarget) <= ReconRadius
                     /\ ~enemyIsFlying(e)
            ELSE FALSE
    IN IF change THEN [target |-> nextTarget, changedAt |-> frame]
       ELSE [target |-> reconTarget, changedAt |-> lastReconTargetChange]

\* The allowed weight of the recon squad, not held to maxWeight.
weightLimitForUnclamped(availableWeight) ==
    IF availableWeight >= 24 THEN 2 + (availableWeight - 24) \div 6 ELSE 0

\* The allowed weight of the recon squad.
weightLimitFor(availableWeight) ==
    LET limit == IF availableWeight >= 24 THEN 2 + (availableWeight - 24) \div 6 ELSE 0
    IN IF limit > maxWeight THEN maxWeight ELSE limit

\* The loop that adds units up to the weight limit: no medics, and few enough
\* marines to allow for 2 medics.
RECURSIVE ReconFill(_, _, _, _)
ReconFill(st, us, weightLimit, availableDetectors) ==
    IF us = <<>> \/ st.squadWeight >= weightLimit THEN st
    ELSE LET unit == Head(us)
             type == getType(unit)
             weight == weighReconUnit(type)
             next ==
                 IF /\ weight > 0
                    /\ st.squadWeight + weight <= weightLimit
                    /\ canAssignUnitToSquad(st.sq, unit, "Recon")
                 THEN IF type = "Terran_Marine"
                      THEN IF st.nMarines * weight
                                < maxWeight - 2 * weighReconUnit("Terran_Medic")
                           THEN [st EXCEPT !.sq = assignUnitToSquad(st.sq, unit, "Recon"),
                                           !.squadWeight = @ + weight,
                                           !.nMarines = @ + 1]
                           ELSE st
                      ELSE IF type # "Terran_Medic"
                      THEN [st EXCEPT !.sq = assignUnitToSquad(st.sq, unit, "Recon"),
                                      !.squadWeight = @ + weight]
                      ELSE st
                 ELSE IF /\ ~st.hasDetector
                         /\ availableDetectors > 1
                         /\ isDetector(type)
                         /\ canAssignUnitToSquad(st.sq, unit, "Recon")
                 THEN [st EXCEPT !.sq = assignUnitToSquad(st.sq, unit, "Recon"),
                                 !.hasDetector = TRUE]
                 ELSE st
         IN ReconFill(next, Tail(us), weightLimit, availableDetectors)

\* The loop that fills in any needed medics.
RECURSIVE ReconMedics(_, _, _)
ReconMedics(st, us, weightLimit) ==
    IF us = <<>> \/ st.squadWeight >= weightLimit \/ st.nMedics >= 2 THEN st
    ELSE LET unit == Head(us)
             next ==
                 IF getType(unit) = "Terran_Medic" /\ canAssignUnitToSquad(st.sq, unit, "Recon")
                 THEN [st EXCEPT !.sq = assignUnitToSquad(st.sq, unit, "Recon"),
                                 !.squadWeight = @ + weighReconUnit("Terran_Medic"),
                                 !.nMedics = @ + 1]
                 ELSE st
         IN ReconMedics(next, Tail(us), weightLimit)

\* The weight limit updateReconSquad computes from the roster.
reconWeightLimit == weightLimitFor(SumWeight(InOrder(combatUnits)))

\* The rebuilding that lets medics stay when the marines are gone.
reconRebuildKeepsMedics(sq) ==
    LET members == sq["Recon"].units
        squadWeight == SumWeight(InOrder(members))
        nMarines == Cardinality({u \in members : getType(u) = "Terran_Marine"})
        nMedics == Cardinality({u \in members : getType(u) = "Terran_Medic"})
        sq1 == IF squadWeight = 0 /\ ~isEmpty(sq, "Recon") THEN clear(sq, "Recon") ELSE sq
        availableDetectors == Cardinality({u \in combatUnits : isDetector(getType(u))})
        weightLimit == reconWeightLimit
        reset == squadWeight > weightLimit
        start == [sq |-> IF reset THEN clear(sq1, "Recon") ELSE sq1,
                  squadWeight |-> IF reset THEN 0 ELSE squadWeight,
                  nMarines |-> IF reset THEN 0 ELSE nMarines,
                  nMedics |-> IF reset THEN 0 ELSE nMedics,
                  hasDetector |-> hasDetector(IF reset THEN clear(sq1, "Recon") ELSE sq1,
                                              "Recon")]
        filled == ReconFill(start, InOrder(combatUnits), weightLimit, availableDetectors)
        topped == IF filled.nMarines > 0 /\ filled.nMedics < 2
                  THEN ReconMedics(filled, InOrder(combatUnits), weightLimit)
                  ELSE filled
    IN topped.sq

\* The part of updateReconSquad after the target is known to be valid.
reconRebuild(sq) ==
    LET members == sq["Recon"].units
        squadWeight == SumWeight(InOrder(members))
        nMarines == Cardinality({u \in members : getType(u) = "Terran_Marine"})
        nMedics == Cardinality({u \in members : getType(u) = "Terran_Medic"})
        sq1 == IF squadWeight = 0 /\ ~isEmpty(sq, "Recon") THEN clear(sq, "Recon") ELSE sq
        availableDetectors == Cardinality({u \in combatUnits : isDetector(getType(u))})
        weightLimit == reconWeightLimit
        reset == squadWeight > weightLimit \/ (nMarines = 0 /\ nMedics > 0)
        start == [sq |-> IF reset THEN clear(sq1, "Recon") ELSE sq1,
                  squadWeight |-> IF reset THEN 0 ELSE squadWeight,
                  nMarines |-> IF reset THEN 0 ELSE nMarines,
                  nMedics |-> IF reset THEN 0 ELSE nMedics,
                  hasDetector |-> hasDetector(IF reset THEN clear(sq1, "Recon") ELSE sq1,
                                              "Recon")]
        filled == ReconFill(start, InOrder(combatUnits), weightLimit, availableDetectors)
        topped == IF filled.nMarines > 0 /\ filled.nMedics < 2
                  THEN ReconMedics(filled, InOrder(combatUnits), weightLimit)
                  ELSE filled
    IN topped.sq

\* The registry, _reconTarget and _lastReconTargetChange after the policy.
updateReconSquad(sq, nextTarget) ==
    IF ~goAggressive
    THEN [sq |-> clear(sq, "Recon"), target |-> reconTarget,
          changedAt |-> lastReconTargetChange]
    ELSE LET chosen == chooseReconTarget(nextTarget)
         IN IF chosen.target = Invalid
            THEN [sq |-> clear(sq, "Recon"), target |-> chosen.target,
                  changedAt |-> chosen.changedAt]
            ELSE [sq |-> setSquadOrder(reconRebuild(sq), "Recon",
                             SquadOrder("Attack", chosen.target, ReconRadius)),
                  target |-> chosen.target, changedAt |-> chosen.changedAt]

----------------------------------------------------------------------------
\* CombatCommander::getAttackLocation

\* The capabilities getAttackLocation assumes of a null squad, or reads from
\* the squad.
squadProfile(sq, name) ==
    IF name = NoSquad
    THEN [hasGround |-> TRUE, hasAir |-> FALSE, canAttackAir |-> FALSE, canAttackGround |-> TRUE]
    ELSE [hasGround |-> hasGround(sq, name), hasAir |-> hasAir(sq, name),
          canAttackAir |-> canAttackAir(sq, name), canAttackGround |-> canAttackGround(sq, name)]

\* The score of an enemy base: minus the number of remembered enemy buildings
\* and slow defensive units within 600 of it that could attack the squad.
\* (The source's spellcaster test, enemy.type == enemy.type == High_Templar,
\* compares a bool with a type and is never true.)
baseScore(basePosition, profile) ==
    0 - Cardinality({ui \in scene.known :
            /\ getDistance(ui.lastPosition, basePosition) <= 600
            /\ \/ isBuilding(ui.type)
               \/ ui.type \in {"Terran_Siege_Tank_Tank_Mode", "Terran_Siege_Tank_Siege_Mode",
                               "Protoss_Reaver", "Zerg_Lurker", "Zerg_Guardian"}
            /\ \/ (profile.hasGround /\ TypeCanAttackGround(ui.type))
               \/ (profile.hasAir /\ TypeCanAttackAir(ui.type))})

\* The walk over the bases, a later base winning a tie.
RECURSIVE BestBaseLastTie(_, _, _)
BestBaseLastTie(st, bases, profile) ==
    IF bases = <<>> THEN st
    ELSE LET score == baseScore(Head(bases), profile)
         IN BestBaseLastTie(IF score >= st.bestScore
                            THEN [targetBase |-> Head(bases), bestScore |-> score]
                            ELSE st,
                            Tail(bases), profile)

\* The walk over the bases: the target base so far (Invalid for none) and its score.
RECURSIVE BestBase(_, _, _)
BestBase(st, bases, profile) ==
    IF bases = <<>> THEN st
    ELSE LET score == baseScore(Head(bases), profile)
         IN BestBase(IF score > st.bestScore
                     THEN [targetBase |-> Head(bases), bestScore |-> score]
                     ELSE st,
                     Tail(bases), profile)

\* The first visible enemy unit the squad can attack; Invalid for none.
RECURSIVE firstVisibleTarget(_, _)
firstVisibleTarget(es, profile) ==
    IF es = <<>> THEN Invalid
    ELSE LET unit == Head(es)
         IN IF \/ unit.type = "Zerg_Larva"
               \/ ~unit.exists
               \/ ~unit.detected
               \/ unit.pos = Invalid
            THEN firstVisibleTarget(Tail(es), profile)
            ELSE IF \/ (enemyIsFlying(unit) /\ profile.canAttackAir)
                    \/ (~enemyIsFlying(unit) /\ profile.canAttackGround)
            THEN unit.pos
            ELSE firstVisibleTarget(Tail(es), profile)

\* The point of attack with visible enemy units looked at before remembered
\* buildings.
getAttackLocationUnitsFirst(sq, name) ==
    LET profile == squadProfile(sq, name)
        best == BestBase([targetBase |-> Invalid, bestScore |-> 0 - 99999],
                         scene.enemyBases, profile)
        building == firstKnownBuilding(InfoInOrder(scene.known))
        visible == firstVisibleTarget(EnemiesInOrder(scene.enemies), profile)
    IN IF profile.canAttackGround /\ best.targetBase # Invalid THEN best.targetBase
       ELSE IF visible # Invalid THEN visible
       ELSE IF (profile.canAttackGround \/ world.enemyRace = "Terran") /\ building # Invalid
       THEN building
       ELSE getLeastExplored(profile.hasGround /\ ~profile.hasAir)

\* The point of attack of the named squad (NoSquad for a null squad).
getAttackLocation(sq, name) ==
    LET profile == squadProfile(sq, name)
        best == BestBase([targetBase |-> Invalid, bestScore |-> 0 - 99999],
                         scene.enemyBases, profile)
        building == firstKnownBuilding(InfoInOrder(scene.known))
        visible == firstVisibleTarget(EnemiesInOrder(scene.enemies), profile)
    IN IF profile.canAttackGround /\ best.targetBase # Invalid THEN best.targetBase
       ELSE IF (profile.canAttackGround \/ world.enemyRace = "Terran") /\ building # Invalid
       THEN building
       ELSE IF visible # Invalid THEN visible
       ELSE getLeastExplored(profile.hasGround /\ ~profile.hasAir)

----------------------------------------------------------------------------
\* CombatCommander::updateAttackSquads

\* The flying squad's types without the corsair.
isFlyingSquadUnitNoCorsair(type) ==
    type \in {"Zerg_Mutalisk", "Terran_Wraith", "Terran_Valkyrie", "Terran_Battlecruiser",
              "Protoss_Scout"}

isFlyingSquadUnit(type) ==
    type \in {"Zerg_Mutalisk", "Terran_Wraith", "Terran_Valkyrie", "Terran_Battlecruiser",
              "Protoss_Corsair", "Protoss_Scout"}

isOptionalFlyingSquadUnit(type) ==
    type \in {"Zerg_Scourge", "Zerg_Devourer", "Protoss_Carrier"}

\* A Ground squad of armed units only.
isGroundSquadUnitArmedOnly(type) == ~isWorker(type) /\ TypeCanAttackGround(type)

isGroundSquadUnit(type) == ~isWorker(type)

\* The unit assigned whether or not the squad may take it.
assignRegardless(sq, unit, name) == assignUnitToSquad(sq, unit, name)

\* Assign the unit if the squad may take it.
assignIfCan(sq, unit, name) ==
    IF canAssignUnitToSquad(sq, unit, name) THEN assignUnitToSquad(sq, unit, name) ELSE sq

\* An optional flyer placed without being taken out of the other attack squad.
placeOptionalFlyerInPlace(sq, unit, flyingSquadExists) ==
    IF flyingSquadExists
    THEN assignIfCan(sq, unit, "Flying")
    ELSE assignIfCan(sq, unit, "Ground")

\* An optional flyer: to Flying if that squad exists, else to Ground.
placeOptionalFlyer(sq, unit, flyingSquadExists) ==
    IF flyingSquadExists
    THEN assignIfCan(IF containsUnit(sq, "Ground", unit)
                     THEN removeUnit(sq, "Ground", unit) ELSE sq,
                     unit, "Flying")
    ELSE assignIfCan(IF containsUnit(sq, "Flying", unit)
                     THEN removeUnit(sq, "Flying", unit) ELSE sq,
                     unit, "Ground")

\* The assertion on an optional flyer taken out of Flying for want of a flying
\* squad: it can go to Ground.
cantGoToGround(sq, unit, flyingSquadExists) ==
    IF /\ ~flyingSquadExists
       /\ containsUnit(sq, "Flying", unit)
       /\ ~canAssignUnitToSquad(removeUnit(sq, "Flying", unit), unit, "Ground")
    THEN {"can't go to ground"}
    ELSE {}

RECURSIVE AttackLoop(_, _, _, _)
AttackLoop(st, us, groundSquadExists, flyingSquadExists) ==
    IF us = <<>> THEN st
    ELSE LET unit == Head(us)
             type == getType(unit)
             next ==
                 IF isDetector(type)
                 THEN IF /\ groundSquadExists /\ ~st.groundDetector
                         /\ canAssignUnitToSquad(st.sq, unit, "Ground")
                      THEN [st EXCEPT !.sq = assignUnitToSquad(st.sq, unit, "Ground"),
                                      !.groundDetector = TRUE]
                      ELSE IF /\ flyingSquadExists /\ ~st.flyingDetector
                              /\ canAssignUnitToSquad(st.sq, unit, "Ground")
                      THEN [st EXCEPT !.sq = assignUnitToSquad(st.sq, unit, "Flying"),
                                      !.flyingDetector = TRUE]
                      ELSE st
                 ELSE IF isFlyingSquadUnit(type)
                 THEN [st EXCEPT !.sq = assignIfCan(st.sq, unit, "Flying")]
                 ELSE IF isOptionalFlyingSquadUnit(type)
                 THEN [st EXCEPT !.sq = placeOptionalFlyer(st.sq, unit, flyingSquadExists),
                                 !.failed = @ \cup cantGoToGround(st.sq, unit,
                                                                  flyingSquadExists)]
                 ELSE IF isGroundSquadUnit(type)
                 THEN [st EXCEPT !.sq = assignIfCan(st.sq, unit, "Ground")]
                 ELSE st
         IN AttackLoop(next, Tail(us), groundSquadExists, flyingSquadExists)

\* The front line held under a defensive posture.
defendPosition ==
    IF scene.wall THEN gapCenter
    ELSE IF scene.naturalOwned THEN getPosition("natural")
    ELSE getPosition("main")

\* The orders of the two attack squads, the radius at a wall left whole.
attackOrdersWideWall(sq) ==
    IF goAggressive
    THEN setSquadOrder(
             setSquadOrder(sq, "Ground",
                 SquadOrder("Attack", getAttackLocation(sq, "Ground"), AttackRadius)),
             "Flying",
             SquadOrder("Attack", getAttackLocation(sq, "Flying"), AttackRadius))
    ELSE setSquadOrder(
             setSquadOrder(sq, "Ground",
                 SquadOrder(IF scene.wall THEN "HoldWall" ELSE "Hold", defendPosition,
                            DefensivePositionRadius)),
             "Flying",
             SquadOrder("Hold", defendPosition, DefensivePositionRadius))

\* The orders of the two attack squads.
attackOrders(sq) ==
    IF goAggressive
    THEN setSquadOrder(
             setSquadOrder(sq, "Ground",
                 SquadOrder("Attack", getAttackLocation(sq, "Ground"), AttackRadius)),
             "Flying",
             SquadOrder("Attack", getAttackLocation(sq, "Flying"), AttackRadius))
    ELSE LET radius == IF scene.wall THEN DefensivePositionRadius \div 4
                       ELSE DefensivePositionRadius
         IN setSquadOrder(
                setSquadOrder(sq, "Ground",
                    SquadOrder(IF scene.wall THEN "HoldWall" ELSE "Hold", defendPosition, radius)),
                "Flying",
                SquadOrder("Hold", defendPosition, radius))

\* The loop begun as if neither attack squad had a detector.
attackLoopedNoDetectorSeen(sq) ==
    LET flyingSquadExists == \E u \in sq["Flying"].units : isFlyingSquadUnit(getType(u))
    IN AttackLoop([sq |-> sq,
                   groundDetector |-> FALSE,
                   flyingDetector |-> FALSE,
                   failed |-> {}],
                  InOrder(combatUnits),
                  hasCombatUnits(sq, "Ground"), flyingSquadExists)

\* The walk of updateAttackSquads over the roster: the registry afterwards and
\* the assertions that failed on the way.
attackLooped(sq) ==
    LET flyingSquadExists == \E u \in sq["Flying"].units : isFlyingSquadUnit(getType(u))
    IN AttackLoop([sq |-> sq,
                   groundDetector |-> hasDetector(sq, "Ground"),
                   flyingDetector |-> hasDetector(sq, "Flying"),
                   failed |-> {}],
                  InOrder(combatUnits),
                  hasCombatUnits(sq, "Ground"), flyingSquadExists)

updateAttackSquads(sq) == attackOrders(attackLooped(sq).sq)

----------------------------------------------------------------------------
\* The safety valves and the comsat scan.  Each gives commands to the game.

BunkerNearRadius == 12 * 32
BunkerWideRadius == 18 * 32

\* Our living units of a type within a radius of a point, nearest first.
closestOfType(type, pos, radius) ==
    LET near == {u \in Units : /\ exists(u) /\ getType(u) = type
                               /\ getDistance(unitPosition(u), pos) <= radius}
    IN IF near = {} THEN NoUnit
       ELSE CHOOSE u \in near :
                \A v \in near :
                    \/ getDistance(unitPosition(u), pos) < getDistance(unitPosition(v), pos)
                    \/ /\ getDistance(unitPosition(u), pos) = getDistance(unitPosition(v), pos)
                       /\ u <= v

\* Only the small radius looked at.
enemyIsNearSmallRadiusOnly(bunker) ==
    \E e \in scene.enemies : getDistance(e.pos, bunker.pos) <= BunkerNearRadius

enemyIsNear(bunker) ==
    \/ \E e \in scene.enemies : getDistance(e.pos, bunker.pos) <= BunkerNearRadius
    \/ \E e \in scene.enemies :
           /\ e.type \in {"Terran_Vulture", "Zerg_Mutalisk"}
           /\ getDistance(e.pos, bunker.pos) <= BunkerWideRadius

\* The commands loadOrUnloadBunkers gives for one bunker.
bunkerCommands(bunker) ==
    IF enemyIsNear(bunker)
    THEN IF bunker.spaceRemaining > 0
            /\ closestOfType("Terran_Marine", bunker.pos, BunkerNearRadius) # NoUnit
         THEN {<<"load", bunker.id,
                 closestOfType("Terran_Marine", bunker.pos, BunkerNearRadius)>>}
         ELSE {}
    ELSE {<<"unloadAll", bunker.id, NoUnit>>}

\* CombatCommander::loadOrUnloadBunkers
loadOrUnloadBunkers ==
    IF world.race # "Terran" THEN {}
    ELSE UNION {bunkerCommands(b) : b \in {o \in scene.ours : o.type = "Terran_Bunker"}}

\* CombatCommander::doComsatScan: at most one scan, of the first enemy unit
\* that is visible and undetected or burrowing.
doComsatScan ==
    LET targets == {e \in scene.enemies :
                       e.visible /\ (~e.detected \/ e.burrowing) /\ e.pos # Invalid}
    IN IF world.race # "Terran" THEN {}
       ELSE IF ~\E o \in scene.ours : o.type = "Terran_Comsat_Station" /\ o.completed THEN {}
       ELSE IF targets = {} THEN {}
       ELSE {<<"scan", (CHOOSE e \in targets : \A f \in targets : e.id <= f.id).id, NoUnit>>}

\* CombatCommander::cancelDyingItems
isDying(o) ==
    /\ o.underAttack
    /\ \/ (isBuilding(o.type) /\ ~o.completed)
       \/ o.type \in {"Zerg_Egg", "Zerg_Lurker_Egg", "Zerg_Cocoon"}
    /\ \/ o.hitPoints < 30
       \/ (o.type = "Zerg_Sunken_Colony" /\ o.hitPoints < 130 /\ o.remainingBuildTime < 24)
    /\ o.type # "Protoss_Photon_Cannon"

cancelDyingItems ==
    {<<"cancelMorph", o.id, NoUnit>> : o \in {x \in scene.ours : isDying(x) /\ x.canCancelMorph}}
    \cup
    {<<"cancelConstruction", o.id, NoUnit>> :
        o \in {x \in scene.ours : isDying(x) /\ ~x.canCancelMorph /\ x.canCancelConstruction}}

\* SquadData::update advances every squad; of its effects the model keeps the
\* one on membership: a squad drops its units that no longer exist.
squadDataUpdate(sq) == [n \in DOMAIN sq |-> [sq[n] EXCEPT !.units = @ \ dead]]

----------------------------------------------------------------------------
\* CombatCommander::initializeSquads

initializeSquads ==
    LET idleOrder == SquadOrder("Idle", getPosition("main"), IdleRadius)
        mainAttackOrder == SquadOrder("Attack", getAttackLocation(<<>>, NoSquad), AttackRadius)
        base == [n \in {"Idle", "Ground", "Flying", "Recon"} |->
                    CASE n = "Idle" -> Squad(idleOrder, IdlePriority)
                      [] n = "Ground" -> Squad(mainAttackOrder, AttackPriority)
                      [] n = "Flying" -> Squad(mainAttackOrder, AttackPriority)
                      [] n = "Recon" -> Squad(idleOrder, ReconPriority)]
        withScout == IF world.ScoutDefenseRadius > 0
                     THEN addSquad(base, "ScoutDefense",
                              Squad(SquadOrder("Defend", getPosition("main"),
                                               world.ScoutDefenseRadius),
                                    ScoutDefensePriority))
                     ELSE base
    IN IF world.dropIsPlanned
       THEN addSquad(withScout, "Drop",
                Squad(SquadOrder("Hold", getPosition("main"), AttackRadius), DropPriority))
       ELSE withScout

\* The names initializeSquads adds to the registry, in order.
squadsAdded ==
    <<"Idle", "Ground", "Flying", "Recon">>
        \o (IF world.ScoutDefenseRadius > 0 THEN <<"ScoutDefense">> ELSE <<>>)
        \o (IF world.dropIsPlanned THEN <<"Drop">> ELSE <<>>)

\* The assertions that fail in initializeSquads, called on the registry sq.
initializeFails(sq) ==
    UNION {addSquadFails([n \in DOMAIN sq \cup {squadsAdded[j] : j \in 1 .. i - 1} |-> TRUE],
                         squadsAdded[i]) : i \in DOMAIN squadsAdded}

----------------------------------------------------------------------------
\* The games the model plays.  A world fixes our units (type and position, in
\* roster order), the order they are produced in, the configuration, and the
\* scenes the collaborators may report.

Enemy(id, type, pos) ==
    [id |-> id, type |-> type, pos |-> pos, attacking |-> FALSE, lifted |-> FALSE,
     detected |-> TRUE, visible |-> TRUE, burrowing |-> FALSE, exists |-> TRUE]

Info(id, type, lastPosition) ==
    [id |-> id, type |-> type, lastPosition |-> lastPosition, goneFromLastPosition |-> FALSE]

Ours(id, type, pos) ==
    [id |-> id, type |-> type, pos |-> pos, completed |-> TRUE, powered |-> TRUE,
     spaceRemaining |-> spaceProvided(type), underAttack |-> FALSE, hitPoints |-> 100,
     remainingBuildTime |-> 0, canCancelMorph |-> FALSE, canCancelConstruction |-> FALSE]

\* Nothing in sight, nothing known.
Calm ==
    [enemies |-> {}, known |-> {}, enemyBases |-> <<>>, enemyMainKnown |-> FALSE,
     occupied |-> {"home"}, naturalOwned |-> FALSE, wall |-> FALSE, ours |-> {},
     neutralBases |-> {2400}, visible |-> {}, weHaveCombatUnits |-> TRUE]

\* A worker scout walks our main.
WorkerScout == [Calm EXCEPT !.enemies = {Enemy(1, "Protoss_Probe", 600)}]

\* Zerglings in our main, next to the base.
ZerglingRush ==
    [Calm EXCEPT !.enemies = {Enemy(1, "Zerg_Zergling", 450), Enemy(2, "Zerg_Zergling", 520)}]

\* A mutalisk over our main.
MutaliskRaid == [Calm EXCEPT !.enemies = {Enemy(1, "Zerg_Mutalisk", 300)}]

\* The enemy main is found; a zealot stands in our natural, which we hold.
Scouted ==
    [Calm EXCEPT !.enemies = {Enemy(1, "Protoss_Zealot", 1450)},
                 !.known = {Info(7, "Protoss_Gateway", 3650)},
                 !.enemyBases = <<getPosition("enemyMain")>>,
                 !.enemyMainKnown = TRUE,
                 !.occupied = {"home", "natural"},
                 !.naturalOwned = TRUE]

\* An enemy building is remembered, its main is not known; a drone attacks in our main.
DroneAttack ==
    [Calm EXCEPT !.enemies = {[Enemy(1, "Zerg_Drone", 480) EXCEPT !.attacking = TRUE]},
                 !.known = {Info(8, "Zerg_Hatchery", 3100)}]

\* A drop is planned: four dark templar, a shuttle that arrives after them, and
\* a zealot.
DropWorld ==
    [types |-> <<"Protoss_Dark_Templar", "Protoss_Shuttle", "Protoss_Dark_Templar",
                 "Protoss_Dark_Templar", "Protoss_Dark_Templar", "Protoss_Zealot">>,
     pos |-> <<380, 420, 400, 440, 460, 700>>,
     arrival |-> <<1, 3, 4, 5, 2, 6>>,
     initial |-> 4,
     race |-> "Protoss", enemyRace |-> "Zerg",
     ScoutDefenseRadius |-> 600, WorkersDefendRush |-> TRUE, dropIsPlanned |-> TRUE,
     postures |-> {TRUE}, losable |-> {2, 3},
     scenes |-> {Calm, ZerglingRush, Scouted}]

\* No drop: a probe, an observer, a carrier, a dragoon, a corsair, a zealot.
SplitWorld ==
    [types |-> <<"Protoss_Probe", "Protoss_Observer", "Protoss_Carrier",
                 "Protoss_Dragoon", "Protoss_Corsair", "Protoss_Zealot">>,
     pos |-> <<450, 700, 900, 650, 1200, 1300>>,
     arrival |-> <<1, 4, 3, 2, 5, 6>>,
     initial |-> 3,
     race |-> "Protoss", enemyRace |-> "Zerg",
     ScoutDefenseRadius |-> 600, WorkersDefendRush |-> TRUE, dropIsPlanned |-> FALSE,
     postures |-> BOOLEAN, losable |-> {5},
     scenes |-> {Calm, WorkerScout, ZerglingRush, MutaliskRaid, DroneAttack}]

\* Our bunker and comsat station stand in our natural; a vulture comes near.
VultureRaid ==
    [Calm EXCEPT !.enemies = {[Enemy(1, "Terran_Vulture", 1300) EXCEPT !.detected = FALSE]},
                 !.ours = {Ours(11, "Terran_Bunker", 1100),
                           Ours(12, "Terran_Comsat_Station", 300)},
                 !.occupied = {"home", "natural"},
                 !.naturalOwned = TRUE]

\* A Terran army: four tanks, two marines, a medic and two science vessels.
ReconWorld ==
    [types |-> <<"Terran_Siege_Tank_Tank_Mode", "Terran_Siege_Tank_Tank_Mode",
                 "Terran_Siege_Tank_Tank_Mode", "Terran_Siege_Tank_Tank_Mode",
                 "Terran_Marine", "Terran_Medic", "Terran_Science_Vessel",
                 "Terran_Science_Vessel", "Terran_Marine">>,
     pos |-> <<600, 620, 640, 660, 1000, 1020, 700, 720, 1040>>,
     arrival |-> <<1, 2, 3, 4, 5, 7, 8, 6, 9>>,
     initial |-> 7,
     race |-> "Terran", enemyRace |-> "Terran",
     ScoutDefenseRadius |-> 0, WorkersDefendRush |-> FALSE, dropIsPlanned |-> FALSE,
     postures |-> BOOLEAN, losable |-> {5},
     scenes |-> {Calm, VultureRaid}]

Worlds == {DropWorld, SplitWorld, ReconWorld}

\* A scene with the given enemy units in sight and the given buildings of ours.
Raid(enemies, ours) == [Calm EXCEPT !.enemies = enemies, !.ours = ours]

\* A Protoss army at home: a probe, two dragoons and a zealot in our main, a
\* probe at the natural.
DefenseArmy ==
    [types |-> <<"Protoss_Probe", "Protoss_Dragoon", "Protoss_Dragoon",
                 "Protoss_Zealot", "Protoss_Probe">>,
     pos |-> <<450, 600, 650, 700, 1600>>,
     arrival |-> <<1, 2, 3, 4, 5>>,
     initial |-> 5,
     race |-> "Protoss", enemyRace |-> "Zerg",
     ScoutDefenseRadius |-> 600, WorkersDefendRush |-> TRUE, dropIsPlanned |-> FALSE,
     postures |-> BOOLEAN, losable |-> {},
     scenes |-> {Calm}]

\* That army against Zerg, in four games: zergling raids on our main, with and
\* without a photon cannon (complete, warping in, unpowered); scouts,
\* overlords and mutalisks; raids that outweigh the army, one of them too
\* strong for the cannon and the army together; walls, a natural we own, and a
\* raid on a natural we occupy without owning its base.
DefenseWorlds ==
    LET drone == Enemy(1, "Zerg_Drone", 600)
        droneB == Enemy(2, "Zerg_Drone", 620)
        zerglingA == Enemy(3, "Zerg_Zergling", 450)
        zerglingB == Enemy(4, "Zerg_Zergling", 520)
        zerglingC == Enemy(5, "Zerg_Zergling", 540)
        zerglingFar == Enemy(6, "Zerg_Zergling", 900)
        hydraliskA == Enemy(7, "Zerg_Hydralisk", 550)
        hydraliskB == Enemy(8, "Zerg_Hydralisk", 560)
        mutaliskA == Enemy(9, "Zerg_Mutalisk", 300)
        mutaliskB == Enemy(10, "Zerg_Mutalisk", 320)
        overlord == Enemy(11, "Zerg_Overlord", 350)
        zerglingNatural == Enemy(12, "Zerg_Zergling", 1450)
        ultralisk == Enemy(13, "Zerg_Ultralisk", 580)
        cannon == Ours(21, "Protoss_Photon_Cannon", 500)
        cannonLow == Ours(22, "Protoss_Photon_Cannon", 300)
        warping == [Ours(23, "Protoss_Photon_Cannon", 500) EXCEPT !.completed = FALSE]
        unpowered == [Ours(24, "Protoss_Photon_Cannon", 500) EXCEPT !.powered = FALSE]
        heavy == {zerglingA, zerglingB, zerglingC, hydraliskA, hydraliskB}
    IN {[DefenseArmy EXCEPT !.scenes =
            {Calm,
             Raid({zerglingA, zerglingB}, {}),
             Raid({zerglingA, zerglingB}, {cannon}),
             Raid({zerglingA, zerglingB}, {warping}),
             Raid({zerglingA, zerglingB}, {unpowered}),
             Raid({zerglingFar}, {})}],
        [DefenseArmy EXCEPT !.scenes =
            {Calm,
             Raid({drone}, {}),
             Raid({[drone EXCEPT !.attacking = TRUE], droneB}, {}),
             Raid({overlord}, {}),
             Raid({mutaliskA}, {}),
             Raid({mutaliskA, mutaliskB}, {cannon}),
             Raid({zerglingA, zerglingB}, {})}],
        [DefenseArmy EXCEPT !.scenes =
            {Calm,
             Raid({drone, zerglingA, hydraliskA}, {}),
             Raid(heavy, {}),
             Raid(heavy, {cannon}),
             Raid(heavy \cup {ultralisk}, {cannon})}],
        [DefenseArmy EXCEPT !.scenes =
            {Calm,
             [Raid({zerglingNatural}, {cannonLow}) EXCEPT !.occupied = {"home", "natural"}],
             [Calm EXCEPT !.wall = TRUE],
             [Calm EXCEPT !.wall = TRUE, !.naturalOwned = TRUE,
                          !.occupied = {"home", "natural"}],
             [Calm EXCEPT !.naturalOwned = TRUE, !.occupied = {"home", "natural"}]}]}

\* The same army against Protoss: probes, zealots, dragoons and an observer.
MirrorWorld ==
    LET probe == Enemy(1, "Protoss_Probe", 600)
        probeB == Enemy(2, "Protoss_Probe", 620)
        probeC == Enemy(3, "Protoss_Probe", 640)
        zealot == Enemy(4, "Protoss_Zealot", 520)
        dragoon == Enemy(5, "Protoss_Dragoon", 530)
        dragoonB == Enemy(6, "Protoss_Dragoon", 540)
        observer == Enemy(7, "Protoss_Observer", 500)
        cannon == Ours(21, "Protoss_Photon_Cannon", 500)
        cannonB == Ours(22, "Protoss_Photon_Cannon", 450)
    IN [DefenseArmy EXCEPT
           !.enemyRace = "Protoss",
           !.scenes =
               {Calm,
                Raid({probe}, {}),
                Raid({probe, probeB}, {}),
                Raid({probe, probeB, probeC}, {}),
                Raid({zealot}, {}),
                Raid({zealot}, {cannon}),
                Raid({zealot, dragoon}, {}),
                Raid({zealot, dragoon}, {cannon, cannonB}),
                Raid({dragoon, dragoonB}, {}),
                Raid({observer}, {})}]

\* Zerg against Terran, workers never pulled for a rush: marines, SCVs, a
\* vulture, a wraith and a lifted barracks over our main, with and without a
\* sunken colony and a spore colony.
HiveWorld ==
    LET scv == Enemy(1, "Terran_SCV", 600)
        marine == Enemy(2, "Terran_Marine", 520)
        marineB == Enemy(3, "Terran_Marine", 540)
        vulture == Enemy(4, "Terran_Vulture", 530)
        wraith == Enemy(5, "Terran_Wraith", 300)
        barracks == [Enemy(6, "Terran_Barracks", 500) EXCEPT !.lifted = TRUE]
        sunken == Ours(21, "Zerg_Sunken_Colony", 500)
        spore == Ours(22, "Zerg_Spore_Colony", 450)
    IN [types |-> <<"Zerg_Drone", "Zerg_Zergling", "Zerg_Zergling",
                    "Zerg_Hydralisk", "Zerg_Hydralisk", "Zerg_Mutalisk">>,
        pos |-> <<450, 600, 620, 640, 660, 700>>,
        arrival |-> <<1, 2, 3, 4, 5, 6>>,
        initial |-> 6,
        race |-> "Zerg", enemyRace |-> "Terran",
        ScoutDefenseRadius |-> 600, WorkersDefendRush |-> FALSE, dropIsPlanned |-> FALSE,
        postures |-> BOOLEAN, losable |-> {},
        scenes |->
            {Calm,
             Raid({marine}, {}),
             Raid({marine}, {spore}),
             Raid({scv, marine, marineB}, {}),
             Raid({vulture}, {}),
             Raid({vulture}, {sunken}),
             Raid({wraith}, {}),
             Raid({wraith}, {sunken}),
             Raid({wraith}, {spore}),
             Raid({vulture, wraith}, {sunken, spore}),
             Raid({barracks}, {})}]

\* Terran against Zerg: an SCV, two marines and a vulture; a missile turret
\* and a bunker in our main.
OutpostWorld ==
    LET zerglingA == Enemy(1, "Zerg_Zergling", 450)
        zerglingB == Enemy(2, "Zerg_Zergling", 520)
        mutalisk == Enemy(3, "Zerg_Mutalisk", 300)
        turret == Ours(21, "Terran_Missile_Turret", 500)
        bunker == Ours(22, "Terran_Bunker", 450)
    IN [types |-> <<"Terran_SCV", "Terran_Marine", "Terran_Marine", "Terran_Vulture">>,
        pos |-> <<450, 600, 620, 640>>,
        arrival |-> <<1, 2, 3, 4>>,
        initial |-> 4,
        race |-> "Terran", enemyRace |-> "Zerg",
        ScoutDefenseRadius |-> 0, WorkersDefendRush |-> TRUE, dropIsPlanned |-> FALSE,
        postures |-> BOOLEAN, losable |-> {},
        scenes |->
            {Calm,
             Raid({mutalisk}, {turret}),
             Raid({zerglingA, zerglingB}, {bunker}),
             Raid({zerglingA, zerglingB, mutalisk}, {turret, bunker})}]

\* Nothing but probes, one in our main and one at the natural, which we
\* occupy; the enemy builds next to our main or at the natural.
RushWorld ==
    LET gateway == Enemy(1, "Protoss_Gateway", 900)
        pylon == Enemy(2, "Protoss_Pylon", 1700)
        bare == [Calm EXCEPT !.weHaveCombatUnits = FALSE,
                             !.occupied = {"home", "natural"}]
    IN [types |-> <<"Protoss_Probe", "Protoss_Probe">>,
        pos |-> <<450, 1600>>,
        arrival |-> <<1, 2>>,
        initial |-> 2,
        race |-> "Protoss", enemyRace |-> "Protoss",
        ScoutDefenseRadius |-> 600, WorkersDefendRush |-> TRUE, dropIsPlanned |-> FALSE,
        postures |-> {TRUE}, losable |-> {},
        scenes |->
            {bare,
             [bare EXCEPT !.enemies = {gateway}],
             [bare EXCEPT !.enemies = {pylon}],
             [bare EXCEPT !.enemies = {gateway}, !.weHaveCombatUnits = TRUE]}]

\* A Terran army that grows: three tanks, two marines, a medic, a vulture, a
\* marine, then tanks.  Its recon weight runs through 18, 20, 22, 24, 28, 30,
\* 36, 42 ... 96 as the units arrive.
ArmyWorld ==
    [types |-> <<"Terran_Siege_Tank_Tank_Mode", "Terran_Siege_Tank_Tank_Mode",
                 "Terran_Siege_Tank_Tank_Mode", "Terran_Marine", "Terran_Marine",
                 "Terran_Medic", "Terran_Vulture", "Terran_Marine">>
                \o [i \in 1 .. 11 |-> "Terran_Siege_Tank_Tank_Mode"],
     pos |-> [i \in 1 .. 19 |-> 500 + 20 * i],
     arrival |-> [i \in 1 .. 19 |-> i],
     initial |-> 3,
     race |-> "Terran", enemyRace |-> "Zerg",
     ScoutDefenseRadius |-> 0, WorkersDefendRush |-> FALSE, dropIsPlanned |-> FALSE,
     postures |-> {TRUE}, losable |-> {},
     scenes |-> {Calm}]

\* The games of defense and of growing armies; the rush is also met with
\* Config::Micro::WorkersDefendRush off; the army may have any size when the
\* first call of update() comes.
\* A drop is planned but no transport is built yet: a probe, a carrier and a
\* corsair, which may be lost.
SortieWorld ==
    [types |-> <<"Protoss_Probe", "Protoss_Carrier", "Protoss_Corsair">>,
     pos |-> <<450, 900, 1200>>,
     arrival |-> <<1, 2, 3>>,
     initial |-> 3,
     race |-> "Protoss", enemyRace |-> "Zerg",
     ScoutDefenseRadius |-> 600, WorkersDefendRush |-> TRUE, dropIsPlanned |-> TRUE,
     postures |-> BOOLEAN, losable |-> {3},
     scenes |-> {Calm, MutaliskRaid, ZerglingRush}]

\* Games in which the worker stands next to the base and the fighters stand
\* more than 200 away from it: a drone and two zerglings, an SCV, a marine and
\* a vulture, a probe, a zealot and a dragoon.  The third unit arrives later.
MilitiaWorlds ==
    LET zergling == Enemy(1, "Zerg_Zergling", 450)
        zerglingB == Enemy(2, "Zerg_Zergling", 520)
        zealot == Enemy(3, "Protoss_Zealot", 520)
        mutalisk == Enemy(4, "Zerg_Mutalisk", 300)
        militia(types, race) ==
            [types |-> types,
             pos |-> <<450, 800, 820>>,
             arrival |-> <<1, 2, 3>>,
             initial |-> 2,
             race |-> race, enemyRace |-> "Zerg",
             ScoutDefenseRadius |-> 0, WorkersDefendRush |-> TRUE, dropIsPlanned |-> FALSE,
             postures |-> BOOLEAN, losable |-> {},
             scenes |-> {Calm, Raid({zergling}, {}), Raid({zergling, zerglingB}, {}),
                         Raid({zealot}, {}), Raid({zergling, mutalisk}, {})}]
    IN {militia(<<"Zerg_Drone", "Zerg_Zergling", "Zerg_Hydralisk">>, "Zerg"),
        militia(<<"Terran_SCV", "Terran_Marine", "Terran_Vulture">>, "Terran"),
        militia(<<"Protoss_Probe", "Protoss_Zealot", "Protoss_Dragoon">>, "Protoss")}

\* Games with flyers of both kinds and several detectors: a probe, two
\* corsairs (one next to the base, one that may be lost), a dragoon, a carrier,
\* two observers and a zealot against a mutalisk; a drone, an overlord, a zergling, a
\* mutalisk that may be lost, a scourge and two more overlords against a wraith.
SquadronWorlds ==
    {[types |-> <<"Protoss_Probe", "Protoss_Corsair", "Protoss_Dragoon", "Protoss_Corsair",
                  "Protoss_Carrier", "Protoss_Observer", "Protoss_Observer",
                  "Protoss_Zealot">>,
      pos |-> <<450, 520, 800, 900, 950, 600, 620, 1000>>,
      arrival |-> <<1, 2, 3, 4, 5, 6, 7, 8>>,
      initial |-> 8,
      race |-> "Protoss", enemyRace |-> "Zerg",
      ScoutDefenseRadius |-> 0, WorkersDefendRush |-> TRUE, dropIsPlanned |-> FALSE,
      postures |-> BOOLEAN, losable |-> {4},
      scenes |-> {Calm, MutaliskRaid}],
     [types |-> <<"Zerg_Drone", "Zerg_Overlord", "Zerg_Zergling", "Zerg_Mutalisk",
                  "Zerg_Scourge", "Zerg_Overlord", "Zerg_Overlord">>,
      pos |-> <<450, 600, 800, 900, 520, 620, 640>>,
      arrival |-> <<1, 2, 3, 4, 5, 6, 7>>,
      initial |-> 5,
      race |-> "Zerg", enemyRace |-> "Terran",
      ScoutDefenseRadius |-> 0, WorkersDefendRush |-> FALSE, dropIsPlanned |-> FALSE,
      postures |-> BOOLEAN, losable |-> {4},
      scenes |-> {Calm, [Calm EXCEPT !.enemies = {Enemy(1, "Terran_Wraith", 300)}]}]}

\* Games of reconnaissance.  Four tanks and two marines, one or two neutral
\* bases or none, the target in sight or not, with a zergling 400 or 401 away
\* from it or a mutalisk over it; sixty allocation ticks may pass at once.
\* And six tanks, a marine that may be lost, a medic and a marine that arrives
\* later.
PatrolWorlds ==
    LET seen == [Calm EXCEPT !.neutralBases = {2400, 2600}, !.visible = {2400}]
    IN {[types |-> <<"Terran_Siege_Tank_Tank_Mode", "Terran_Siege_Tank_Tank_Mode",
                     "Terran_Siege_Tank_Tank_Mode", "Terran_Siege_Tank_Tank_Mode",
                     "Terran_Marine", "Terran_Marine">>,
         pos |-> <<600, 620, 640, 660, 680, 700>>,
         arrival |-> <<1, 2, 3, 4, 5, 6>>,
         initial |-> 6,
         race |-> "Terran", enemyRace |-> "Zerg",
         ScoutDefenseRadius |-> 0, WorkersDefendRush |-> FALSE, dropIsPlanned |-> FALSE,
         postures |-> BOOLEAN, losable |-> {},
         scenes |-> {Calm,
                     [Calm EXCEPT !.neutralBases = {}],
                     seen,
                     [seen EXCEPT !.enemies = {Enemy(1, "Zerg_Zergling", 2800)}],
                     [seen EXCEPT !.enemies = {Enemy(1, "Zerg_Zergling", 2801),
                                               Enemy(2, "Zerg_Mutalisk", 2400)}]},
         frameSteps |-> {1, 8, 480}],
        [types |-> [i \in 1 .. 6 |-> "Terran_Siege_Tank_Tank_Mode"]
                       \o <<"Terran_Marine", "Terran_Medic", "Terran_Marine">>,
         pos |-> [i \in 1 .. 9 |-> 580 + 20 * i],
         arrival |-> [i \in 1 .. 9 |-> i],
         initial |-> 8,
         race |-> "Terran", enemyRace |-> "Zerg",
         ScoutDefenseRadius |-> 0, WorkersDefendRush |-> FALSE, dropIsPlanned |-> FALSE,
         postures |-> BOOLEAN, losable |-> {7},
         scenes |-> {Calm, [Calm EXCEPT !.neutralBases = {}]}]}

SkirmishWorlds ==
    DefenseWorlds
        \cup {MirrorWorld, HiveWorld, OutpostWorld, RushWorld, SortieWorld,
              [RushWorld EXCEPT !.WorkersDefendRush = FALSE]}
        \cup {[ArmyWorld EXCEPT !.initial = n] : n \in 3 .. 19}

\* The frames the game may advance between two calls of update().
FrameSteps == {1, 8}

\* The frames that may pass between two calls in the game: those of the game's
\* own "frameSteps" if it has any.
frameStepsOf(game) ==
    IF "frameSteps" \in DOMAIN game THEN game.frameSteps ELSE FrameSteps

\* A Terran outpost with a comsat station, and a clock that lets every
\* residue of the frame count mod 8 come up within a few calls.
ClockWorld ==
    [types |-> <<"Terran_SCV", "Terran_Marine", "Terran_Vulture">>,
     pos |-> <<450, 600, 640>>,
     arrival |-> <<1, 2, 3>>,
     initial |-> 3,
     race |-> "Terran", enemyRace |-> "Terran",
     ScoutDefenseRadius |-> 600, WorkersDefendRush |-> TRUE, dropIsPlanned |-> FALSE,
     postures |-> BOOLEAN, losable |-> {},
     scenes |-> {Calm, VultureRaid},
     frameSteps |-> {1, 3, 4, 8}]

\* A Terran outpost with two bunkers: one in the natural with marines on both
\* sides of it, one farther out with no marine near.  Enemy units come near
\* the one or the other; the first bunker is empty or full.
GarrisonWorlds ==
    LET near == Ours(31, "Terran_Bunker", 1100)
        far == Ours(32, "Terran_Bunker", 2400)
        full == [near EXCEPT !.spaceRemaining = 0]
        zergling(pos) == Enemy(1, "Zerg_Zergling", pos)
        mutalisk(pos) == Enemy(2, "Zerg_Mutalisk", pos)
        vulture(pos) == Enemy(3, "Terran_Vulture", pos)
    IN {[types |-> <<"Terran_SCV", "Terran_Marine", "Terran_Marine", "Terran_Vulture">>,
         pos |-> <<450, 1000, 1250, 640>>,
         arrival |-> <<1, 2, 3, 4>>,
         initial |-> 4,
         race |-> "Terran", enemyRace |-> "Zerg",
         ScoutDefenseRadius |-> 0, WorkersDefendRush |-> TRUE, dropIsPlanned |-> FALSE,
         postures |-> BOOLEAN, losable |-> {2, 3},
         scenes |->
             {Raid({}, {near, far}),
              Raid({zergling(1300)}, {near, far}),
              Raid({zergling(1600)}, {near, far}),
              Raid({vulture(1600)}, {near, far}),
              Raid({mutalisk(1500), zergling(2500)}, {near, far}),
              Raid({mutalisk(1700)}, {near}),
              Raid({zergling(900)}, {full, far}),
              Raid({}, {full})}]}

\* Games in which the attack squads look for a point of attack.  Against Zerg:
\* a zealot and a corsair, then an observer and a dragoon.  Against Terran: a
\* marine and a valkyrie.
AssaultWorlds ==
    LET hatcheries == {Info(1, "Zerg_Hatchery", 3600), Info(2, "Zerg_Hatchery", 2200)}
        bases == <<getPosition("enemyMain"), 2200>>
        zergScenes ==
            {Calm,
             \* a hatchery has gone from where it was seen, a spore colony has not
             [Calm EXCEPT !.known = {[Info(1, "Zerg_Hatchery", 3100)
                                          EXCEPT !.goneFromLastPosition = TRUE],
                                     Info(2, "Zerg_Spore_Colony", 3200),
                                     Info(3, "Zerg_Zergling", 3300)}],
             \* a sunken colony at the main, two spore colonies at the expansion
             [Calm EXCEPT !.enemyBases = bases, !.enemyMainKnown = TRUE,
                          !.known = hatcheries \cup {Info(3, "Zerg_Sunken_Colony", 3650),
                                                     Info(4, "Zerg_Spore_Colony", 2250),
                                                     Info(5, "Zerg_Spore_Colony", 2300)}],
             \* a sunken colony and a hydralisk at the main, a lurker at the
             \* expansion, a sunken colony far from both
             [Calm EXCEPT !.enemyBases = bases, !.enemyMainKnown = TRUE,
                          !.known = hatcheries \cup {Info(3, "Zerg_Sunken_Colony", 3650),
                                                     Info(4, "Zerg_Hydralisk", 3620),
                                                     Info(5, "Zerg_Lurker", 2250),
                                                     Info(6, "Zerg_Sunken_Colony", 2900)}],
             \* a larva, an unseen lurker, a mutalisk and a zergling on the map
             [Calm EXCEPT !.enemies = {Enemy(1, "Zerg_Larva", 2300),
                                       [Enemy(2, "Zerg_Lurker", 2350)
                                            EXCEPT !.detected = FALSE],
                                       Enemy(3, "Zerg_Mutalisk", 2600),
                                       Enemy(4, "Zerg_Zergling", 2650)}],
             \* a zergling that is no longer there, a mutalisk, and a
             \* remembered spore colony
             [Calm EXCEPT !.enemies = {[Enemy(1, "Zerg_Zergling", 2650)
                                            EXCEPT !.exists = FALSE],
                                       Enemy(2, "Zerg_Mutalisk", 2600)},
                          !.known = {Info(2, "Zerg_Spore_Colony", 3200)}]}
        terranScenes ==
            {Calm,
             [Calm EXCEPT !.known = {Info(1, "Terran_Barracks", 3100)}],
             [Calm EXCEPT !.enemies = {Enemy(1, "Terran_Marine", 2650),
                                       Enemy(2, "Terran_Wraith", 2600)}],
             [Calm EXCEPT !.enemies = {Enemy(1, "Terran_Wraith", 2600)},
                          !.known = {Info(1, "Terran_Barracks", 3100)}]}
    IN {[types |-> <<"Protoss_Zealot", "Protoss_Corsair", "Protoss_Observer",
                     "Protoss_Dragoon">>,
         pos |-> <<600, 640, 680, 720>>,
         arrival |-> <<1, 2, 3, 4>>,
         initial |-> 2,
         race |-> "Protoss", enemyRace |-> "Zerg",
         ScoutDefenseRadius |-> 600, WorkersDefendRush |-> TRUE, dropIsPlanned |-> FALSE,
         postures |-> BOOLEAN, losable |-> {1},
         scenes |-> zergScenes],
        [types |-> <<"Terran_Marine", "Terran_Valkyrie">>,
         pos |-> <<600, 640>>,
         arrival |-> <<1, 2>>,
         initial |-> 1,
         race |-> "Terran", enemyRace |-> "Terran",
         ScoutDefenseRadius |-> 600, WorkersDefendRush |-> TRUE, dropIsPlanned |-> FALSE,
         postures |-> BOOLEAN, losable |-> {},
         scenes |-> terranScenes]}

\* Games in which a drop is planned: five dark templar, two shuttles of which
\* the first may be lost, and a zealot, with two to six of them there at the start.
AirliftWorlds ==
    {[types |-> <<"Protoss_Dark_Templar", "Protoss_Shuttle", "Protoss_Dark_Templar",
                  "Protoss_Dark_Templar", "Protoss_Shuttle", "Protoss_Dark_Templar",
                  "Protoss_Dark_Templar", "Protoss_Zealot">>,
      pos |-> <<380, 420, 400, 440, 430, 460, 480, 700>>,
      arrival |-> <<1, 3, 2, 8, 4, 5, 6, 7>>,
      initial |-> n,
      race |-> "Protoss", enemyRace |-> "Zerg",
      ScoutDefenseRadius |-> 600, WorkersDefendRush |-> TRUE, dropIsPlanned |-> TRUE,
      postures |-> {TRUE}, losable |-> {2},
      scenes |-> {Calm, Scouted}] : n \in 2 .. 6}

----------------------------------------------------------------------------
\* OpponentModel: the records of past games against this opponent.

MaxGames == 3           \* games played one after another
MaxOldRecords == 3      \* records in the file before the first game

\* A game record in the file: the game it is of, and whether it reads back as
\* valid.  The record of a game played is valid.
GameRecord(id) == [id |-> id, valid |-> TRUE]
isValid(record) == record.valid

\* The files that may be there before the first game: records of earlier
\* games, some of them unreadable.
OldFiles ==
    UNION {[1..n -> BOOLEAN] : n \in 0..MaxOldRecords}
oldFile(validity) ==
    [k \in DOMAIN validity |-> [id |-> k - MaxOldRecords, valid |-> validity[k]]]

\* OpponentModel::read: the valid records of the file, in order.
readRecords(records) == SelectSeq(records, isValid)

\* The number of initial game records to skip over without rewriting.
nToSkip(past) ==
    IF Len(past) >= io.MaxGameRecords THEN Len(past) - io.MaxGameRecords + 1 ELSE 0

\* The first loop of OpponentModel::write: every past record.
firstLoop(past) == past

\* The second loop of OpponentModel::write: the past records after the skipped.
rewritten(past) == SubSeq(past, nToSkip(past) + 1, Len(past))

\* OpponentModel::write: the file afterwards.
written(past, record) == firstLoop(past) \o rewritten(past) \o <<record>>

\* OpponentModel::read
OpponentModelRead ==
    /\ phase = "read"
    /\ pastGameRecords' = IF io.ReadOpponentModel
                          THEN pastGameRecords \o readRecords(file)
                          ELSE pastGameRecords
    /\ phase' = "write"
    /\ UNCHANGED <<io, file, gameRecord, games>>
    /\ UNCHANGED commanderVars

\* OpponentModel::write
OpponentModelWrite ==
    /\ phase = "write"
    /\ file' = IF io.WriteOpponentModel THEN written(pastGameRecords, gameRecord) ELSE file
    /\ phase' = "over"
    /\ UNCHANGED <<io, pastGameRecords, gameRecord, games>>
    /\ UNCHANGED commanderVars

\* OpponentModel::OpponentModel: the next game starts with no past records.
NewGame ==
    /\ phase = "over"
    /\ games + 1 < MaxGames
    /\ games' = games + 1
    /\ pastGameRecords' = <<>>
    /\ gameRecord' = GameRecord(games + 2)
    /\ phase' = "read"
    /\ UNCHANGED <<io, file>>
    /\ UNCHANGED commanderVars

----------------------------------------------------------------------------
\* The steps of update(), in order.

\* update() running the scout defense policy before the drop policy.
nextStepScoutFirst(step) ==
    CASE step = "idle" -> "scoutDefense"
      [] step = "scoutDefense" -> "drop"
      [] step = "drop" -> "baseDefense"
      [] step = "baseDefense" -> "recon"
      [] step = "recon" -> "attack"
      [] step = "attack" -> "bunkers"
      [] step = "comsat" -> "bunkers"
      [] step = "bunkers" -> "squads"
      [] step = "squads" -> "cancel"
      [] step = "cancel" -> "game"

\* update() advancing the squads before it looks after the bunkers.
nextStepSquadsFirst(step) ==
    CASE step = "idle" -> "drop"
      [] step = "drop" -> "scoutDefense"
      [] step = "scoutDefense" -> "baseDefense"
      [] step = "baseDefense" -> "recon"
      [] step = "recon" -> "attack"
      [] step = "attack" -> "squads"
      [] step = "comsat" -> "squads"
      [] step = "squads" -> "bunkers"
      [] step = "bunkers" -> "cancel"
      [] step = "cancel" -> "game"

\* The step that follows a step of update().
nextStep(step) ==
    CASE step = "idle" -> "drop"
      [] step = "drop" -> "scoutDefense"
      [] step = "scoutDefense" -> "baseDefense"
      [] step = "baseDefense" -> "recon"
      [] step = "recon" -> "attack"
      [] step = "attack" -> "bunkers"
      [] step = "comsat" -> "bunkers"
      [] step = "bunkers" -> "squads"
      [] step = "squads" -> "cancel"
      [] step = "cancel" -> "game"

\* update() with the comsat scan on frame8 = 2 only.
firstStepScanOncePerEight(f) ==
    LET frame8 == f % 8
    IN IF frame8 = 1 THEN "idle"
       ELSE IF frame8 = 2 THEN "comsat"
       ELSE "bunkers"

\* The first step of update() in a frame.
firstStep(f) ==
    LET frame8 == f % 8
    IN IF frame8 = 1 THEN "idle"
       ELSE IF frame8 % 4 = 2 THEN "comsat"
       ELSE "bunkers"

Produced == {world.arrival[i] : i \in 1 .. nProduced}

\* The state when update() is first called, in one of the given games.
CommanderInit(worlds) ==
    /\ world \in worlds
    /\ frame = 0
    /\ pc = "update"
    /\ initialized = FALSE
    /\ goAggressive = TRUE
    /\ reconTarget = Invalid
    /\ lastReconTargetChange = 0
    /\ enemyWorkerAttackedAt = 0
    /\ squads = [n \in {} |-> Squad(SquadOrder("Idle", Invalid, 0), IdlePriority)]
    /\ combatUnits = {}
    /\ nProduced = world.initial
    /\ dead = {}
    /\ loaded = {}
    /\ scene = Calm
    /\ ran = <<>>
    /\ issued = {}
    /\ ticks = 0
    /\ needs = <<>>
    /\ failed = {}
    /\ joined = <<>>

\* The opponent model of a first game: no file yet.
InitIn(worlds) ==
    /\ CommanderInit(worlds)
    /\ io = [MaxGameRecords |-> 3, ReadOpponentModel |-> TRUE, WriteOpponentModel |-> TRUE]
    /\ file = <<>>
    /\ pastGameRecords = <<>>
    /\ gameRecord = GameRecord(1)
    /\ games = 0
    /\ phase = "read"

Init == InitIn(Worlds)

SkirmishInit == InitIn(SkirmishWorlds)

ClockInit == InitIn({ClockWorld})

AssaultInit == InitIn(AssaultWorlds)

AirliftInit == InitIn(AirliftWorlds)

MilitiaInit == InitIn(MilitiaWorlds)

SquadronInit == InitIn(SquadronWorlds)

PatrolInit == InitIn(PatrolWorlds)

GarrisonInit == InitIn(GarrisonWorlds)

\* The assertions that fail when the step of update() runs in this state; those
\* of updateBaseDefenseSquads are reported by the policy itself.
failsIn(step) ==
    CASE step = "update" -> IF initialized THEN {} ELSE initializeFails(squads)
      [] step = "idle" -> getSquadFails(squads, {"Idle"})
      [] step = "scoutDefense" ->
             IF world.ScoutDefenseRadius = 0 \/ combatUnits = {} THEN {}
             ELSE getSquadFails(squads, {"ScoutDefense"})
      [] step = "recon" -> getSquadFails(squads, {"Recon"})
      [] step = "attack" ->
             IF getSquadFails(squads, {"Ground", "Flying"}) # {}
             THEN getSquadFails(squads, {"Ground", "Flying"})
             ELSE attackLooped(squads).failed
      [] OTHER -> {}

\* A failed assertion is fatal: update() does not go on.
Aborted(fails) ==
    /\ fails # {}
    /\ failed' = failed \cup fails
    /\ pc' = "aborted"

\* update(combatUnits), up to the choice of the first step.
Update ==
    /\ pc = "update"
    /\ \E fails \in {failsIn("update")} :
           IF fails = {}
           THEN /\ squads' = IF initialized THEN squads ELSE initializeSquads
                /\ pc' = firstStep(frame)
                /\ UNCHANGED failed
           ELSE /\ Aborted(fails)
                /\ UNCHANGED squads
    /\ initialized' = TRUE
    /\ combatUnits' = Produced \ dead
    /\ ran' = <<>>
    /\ issued' = {}
    /\ ticks' = ticks + 1
    /\ needs' = <<>>
    /\ joined' = <<>>
    /\ UNCHANGED opponentModelVars
    /\ UNCHANGED <<world, frame, goAggressive, reconTarget, lastReconTargetChange,
                   enemyWorkerAttackedAt, nProduced, dead, loaded, scene>>

\* A policy that changes the registry only.
Policy(step, sq) ==
    /\ pc = step
    /\ \E fails \in {failsIn(step)} :
           IF fails = {}
           THEN /\ squads' = sq
                /\ pc' = nextStep(step)
                /\ UNCHANGED failed
           ELSE /\ Aborted(fails)
                /\ UNCHANGED squads
    /\ joined' = IF step = "drop" THEN dropJoins(squads) ELSE joined
    /\ ran' = Append(ran, step)
    /\ UNCHANGED opponentModelVars
    /\ UNCHANGED <<world, frame, initialized, goAggressive, reconTarget,
                   lastReconTargetChange, enemyWorkerAttackedAt, combatUnits,
                   nProduced, dead, loaded, scene, issued, ticks, needs>>

UpdateIdleSquad == Policy("idle", updateIdleSquad(squads))

UpdateDropSquads == Policy("drop", updateDropSquads(squads))

UpdateScoutDefenseSquad == Policy("scoutDefense", updateScoutDefenseSquad(squads))

UpdateBaseDefenseSquads ==
    /\ pc = "baseDefense"
    /\ \E done \in {updateBaseDefenseSquads(squads)} :
           IF done.failed = {}
           THEN /\ squads' = done.sq
                /\ enemyWorkerAttackedAt' = done.attackedAt
                /\ needs' = done.needs
                /\ pc' = nextStep("baseDefense")
                /\ UNCHANGED failed
           ELSE /\ Aborted(done.failed)
                /\ UNCHANGED <<squads, enemyWorkerAttackedAt, needs>>
    /\ ran' = Append(ran, "baseDefense")
    /\ UNCHANGED opponentModelVars
    /\ UNCHANGED <<world, frame, initialized, goAggressive, reconTarget,
                   lastReconTargetChange, combatUnits, nProduced, dead, loaded,
                   scene, issued, ticks, joined>>

UpdateReconSquad ==
    /\ pc = "recon"
    /\ \E fails \in {failsIn("recon")} :
           IF fails = {}
           THEN /\ \E nextTarget \in ReconLocations :
                       /\ squads' = updateReconSquad(squads, nextTarget).sq
                       /\ reconTarget' = updateReconSquad(squads, nextTarget).target
                       /\ lastReconTargetChange' = updateReconSquad(squads, nextTarget).changedAt
                /\ pc' = nextStep("recon")
                /\ UNCHANGED failed
           ELSE /\ Aborted(fails)
                /\ UNCHANGED <<squads, reconTarget, lastReconTargetChange>>
    /\ ran' = Append(ran, "recon")
    /\ UNCHANGED opponentModelVars
    /\ UNCHANGED <<world, frame, initialized, goAggressive, enemyWorkerAttackedAt,
                   combatUnits, nProduced, dead, loaded, scene, issued, ticks, needs,
                   joined>>

UpdateAttackSquads == Policy("attack", updateAttackSquads(squads))

\* A step that gives commands to the game.
Valve(step, commands) ==
    /\ pc = step
    /\ issued' = issued \cup commands
    /\ pc' = nextStep(step)
    /\ ran' = Append(ran, step)
    /\ UNCHANGED opponentModelVars
    /\ UNCHANGED <<world, frame, initialized, goAggressive, reconTarget,
                   lastReconTargetChange, enemyWorkerAttackedAt, squads, combatUnits,
                   nProduced, dead, loaded, scene, ticks, needs, failed, joined>>

DoComsatScan == Valve("comsat", doComsatScan)

LoadOrUnloadBunkers == Valve("bunkers", loadOrUnloadBunkers)

CancelDyingItems == Valve("cancel", cancelDyingItems)

\* _squadData.update().  Whether a squad drops its lost units in this call is
\* left open.
SquadDataUpdate ==
    /\ pc = "squads"
    /\ \E drops \in BOOLEAN : squads' = IF drops THEN squadDataUpdate(squads) ELSE squads
    /\ pc' = nextStep("squads")
    /\ ran' = Append(ran, "squads")
    /\ UNCHANGED opponentModelVars
    /\ UNCHANGED <<world, frame, initialized, goAggressive, reconTarget,
                   lastReconTargetChange, enemyWorkerAttackedAt, combatUnits,
                   nProduced, dead, loaded, scene, issued, ticks, needs, failed, joined>>

\* The members of the Drop squad that could board its transport.
boarding ==
    IF squadExists(squads, "Drop")
       /\ \E t \in squads["Drop"].units : exists(t) /\ isTransport(t)
    THEN {u \in squads["Drop"].units : exists(u) /\ ~isTransport(u) /\ ~isLoaded(u)}
    ELSE {}

\* Between two calls of update() the game goes on: frames pass, units are
\* produced, board a transport, leave it or are lost, the enemy moves, the
\* strategy changes the posture.
GameAdvances ==
    /\ pc = "game"
    /\ ticks < MaxTicks
    /\ \E d \in frameStepsOf(world) : frame' = frame + d
    /\ scene' \in world.scenes
    /\ goAggressive' \in world.postures
    /\ nProduced' \in {nProduced}
                      \cup (IF nProduced < Len(world.arrival) THEN {nProduced + 1} ELSE {})
    /\ \E lost \in SUBSET ((Produced \ dead) \cap world.losable) :
           /\ Cardinality(lost) <= 1
           /\ Cardinality(dead \cup lost) <= MaxLost
           /\ dead' = dead \cup lost
           /\ \E boards \in {{}, boarding, IF boarding = {} THEN {} ELSE {Min(boarding)}} :
                  loaded' = (loaded \cup boards) \ lost
    /\ pc' = "update"
    /\ UNCHANGED opponentModelVars
    /\ UNCHANGED <<world, initialized, reconTarget, lastReconTargetChange,
                   enemyWorkerAttackedAt, squads, combatUnits, ran, issued, ticks, needs, failed, joined>>

Next ==
    \/ Update
    \/ UpdateIdleSquad
    \/ UpdateDropSquads
    \/ UpdateScoutDefenseSquad
    \/ UpdateBaseDefenseSquads
    \/ UpdateReconSquad
    \/ UpdateAttackSquads
    \/ DoComsatScan
    \/ LoadOrUnloadBunkers
    \/ SquadDataUpdate
    \/ CancelDyingItems
    \/ GameAdvances

Spec == Init /\ [][Next]_vars

SkirmishSpec == SkirmishInit /\ [][Next]_vars

ClockSpec == ClockInit /\ [][Next]_vars

AssaultSpec == AssaultInit /\ [][Next]_vars

AirliftSpec == AirliftInit /\ [][Next]_vars

MilitiaSpec == MilitiaInit /\ [][Next]_vars

SquadronSpec == SquadronInit /\ [][Next]_vars

PatrolSpec == PatrolInit /\ [][Next]_vars

GarrisonSpec == GarrisonInit /\ [][Next]_vars

\* The opponent model over a series of games; the commander stands still.
ArchiveInit ==
    /\ CommanderInit({ClockWorld})
    /\ io \in [MaxGameRecords : 1..3, ReadOpponentModel : BOOLEAN, WriteOpponentModel : BOOLEAN]
    /\ file \in {oldFile(v) : v \in {w \in OldFiles : Len(w) <= io.MaxGameRecords}}
    /\ pastGameRecords = <<>>
    /\ gameRecord = GameRecord(1)
    /\ games = 0
    /\ phase = "read"

ArchiveNext ==
    \/ OpponentModelRead
    \/ OpponentModelWrite
    \/ NewGame

ArchiveSpec == ArchiveInit /\ [][ArchiveNext]_vars

----------------------------------------------------------------------------
\* Properties.

\* update() has returned from a call in which the six policies ran.
endOfAllocation == pc = "game" /\ frame % 8 = 1

\* The squad each unit is in must be read through squadsOf: a unit in no
\* squad has none, a unit in one squad has exactly that one.
inExactlyOneSquad(sq, u) == Cardinality(squadsOf(sq, u)) = 1

\* C1: in every reachable state each of our units is a member of at most one
\* squad of the registry.
C1_AtMostOneSquad == \A u \in Units : Cardinality(squadsOf(squads, u)) <= 1

\* C1 witness: the attack policy has run, an optional flyer sits in the Flying
\* squad, and the idle policy has put a unit into Idle.
C1_Witness ==
    /\ pc = "bunkers" /\ frame % 8 = 1
    /\ \E u \in squads["Flying"].units : isOptionalFlyingSquadUnit(getType(u))
    /\ squads["Idle"].units # {}

\* C2 as claimed: at the end of every full-allocation call every roster unit
\* is a member of exactly one squad.
C2_Original == endOfAllocation => \A u \in combatUnits : inExactlyOneSquad(squads, u)

\* C2 amended: at the end of every full-allocation call every roster unit
\* that is neither a worker nor a detector is a member of exactly one squad,
\* and every roster unit is a member of at most one.
C2_NonWorkersPlaced ==
    endOfAllocation =>
        \A u \in combatUnits :
            /\ Cardinality(squadsOf(squads, u)) <= 1
            /\ (~isWorker(getType(u)) /\ ~isDetector(getType(u)))
                   => inExactlyOneSquad(squads, u)

\* C2 witness: a full-allocation call ends with a roster unit in no squad
\* while the other roster units are placed.
C2_Witness ==
    /\ endOfAllocation
    /\ \E u \in combatUnits : squadsOf(squads, u) = {}
    /\ \E u \in combatUnits : ~isWorker(getType(u)) /\ u \in squads["Ground"].units

\* C3: the idle policy leaves no roster unit without a squad: a roster unit
\* that had no squad is in Idle afterwards, and no unit that had a squad is moved.
C3_IdleFillsRoster ==
    [][pc = "idle" =>
          /\ \A u \in combatUnits : inExactlyOneSquad(squads', u)
          /\ \A u \in combatUnits : squadsOf(squads, u) = {} => squadsOf(squads', u) = {"Idle"}
          /\ \A u \in Units : squadsOf(squads, u) # {} => squadsOf(squads', u) = squadsOf(squads, u)
      ]_vars

\* C3 witness: the idle policy has just run; Idle holds a roster unit and so
\* does another squad.
C3_Witness ==
    /\ pc = "drop"
    /\ squads["Idle"].units \cap combatUnits # {}
    /\ squads["Ground"].units \cap combatUnits # {}

\* The Drop squad's phase, by its order: collecting, loading, dropped.
dropPhase(sq) ==
    CASE sq["Drop"].order.type = "Hold" -> 0
      [] sq["Drop"].order.type = "Load" -> 1
      [] sq["Drop"].order.type = "Drop" -> 2
      [] OTHER -> 0 - 1

\* C4: the Drop squad's order only moves forward, Hold to Load to Drop.
C4_DropMonotonic ==
    [][(squadExists(squads, "Drop") /\ squadExists(squads', "Drop")) =>
          /\ dropPhase(squads') >= dropPhase(squads)
          /\ dropPhase(squads') >= 0
      ]_vars

\* C4 witness: the drop policy has run on a squad ordered to Drop whose
\* transport is lost.
C4_Witness ==
    /\ pc = "scoutDefense"
    /\ squadExists(squads, "Drop")
    /\ squads["Drop"].order.type = "Drop"
    /\ \E t \in dead : isTransport(t)

\* C5: once the order is Drop, the drop policy leaves the squad's order and
\* membership as they are.
C5_DroppedIsFinal ==
    [][(pc = "drop" /\ squadExists(squads, "Drop") /\ squads["Drop"].order.type = "Drop")
          => squads'["Drop"] = squads["Drop"]
      ]_vars

\* C5 witness: the drop policy has run on a squad ordered to Drop while the
\* drop location is no longer the one of its order, and a roster unit good to
\* drop is outside the squad.
C5_Witness ==
    /\ pc = "scoutDefense"
    /\ squadExists(squads, "Drop")
    /\ squads["Drop"].order.type = "Drop"
    /\ squads["Drop"].order.position # getDropLocation
    /\ combatUnits # {}

\* C6 as claimed: after updateReconSquad the recon weights of the Recon
\* squad's members sum to no more than the weight limit of that invocation.
C6_ReconWithinLimit ==
    (pc = "attack" /\ goAggressive /\ reconTarget # Invalid)
        => SumWeight(InOrder(squads["Recon"].units)) <= reconWeightLimit

\* C7: a member of the Drop squad is refused by every other squad, and no
\* step moves a member of the Drop squad into another squad.
C7_DropNotRaided ==
    /\ [](squadExists(squads, "Drop") =>
             \A u \in squads["Drop"].units :
                 \A n \in DOMAIN squads \ {"Drop"} : ~canAssignUnitToSquad(squads, u, n))
    /\ [][squadExists(squads, "Drop") =>
             \A u \in squads["Drop"].units : squadsOf(squads', u) \subseteq {"Drop"}
         ]_vars

\* C7 witness: the base defense policy has run and its squad in our main holds
\* the zealot alone, short of the defenders it needs, while dark templar stand
\* in the Drop squad.
C7_Witness ==
    /\ pc = "recon"
    /\ squadExists(squads, "Drop")
    /\ Cardinality({u \in squads["Drop"].units : exists(u) /\ CanAttackGround(u)}) >= 2
    /\ squadExists(squads, squadName(getCenter("home")))
    /\ \E u \in squads[squadName(getCenter("home"))].units : getType(u) = "Protoss_Zealot"
    /\ SumWorth(InOrder(squads[squadName(getCenter("home"))].units))
           < groundDefendersNeededFor(enemyUnitsInRegion("home"), "home", getCenter("home"))

\* C8: in a full-allocation call the six policies run once each, in the order
\* idle, drop, scout defense, base defense, recon, attack.
C8_PolicyOrder ==
    endOfAllocation =>
        /\ Len(ran) >= 6
        /\ SubSeq(ran, 1, 6) = <<"idle", "drop", "scoutDefense", "baseDefense", "recon", "attack">>
        /\ \A i \in 7 .. Len(ran) : ran[i] \in {"bunkers", "squads", "cancel"}

\* C8 witness: a full-allocation call has ended with units in squads.
C8_Witness ==
    /\ endOfAllocation
    /\ squads["Ground"].units # {}
    /\ squads["Idle"].units # {}

\* The living members of the Drop squad: its transports and its cargo.
liveTransports(sq) == {u \in sq["Drop"].units : exists(u) /\ isTransport(u)}
liveCargo(sq) == {u \in sq["Drop"].units : exists(u) /\ ~isTransport(u)}

\* The transport space a set of units takes (all at once: a set has no order).
RECURSIVE cargoSpace(_)
cargoSpace(S) ==
    IF S = {} THEN 0
    ELSE LET u == CHOOSE x \in S : TRUE IN spaceRequired(getType(u)) + cargoSpace(S \ {u})

\* The Drop squad is complete: a living transport and cargo for 8 spots exactly.
dropComplete(sq) == liveTransports(sq) # {} /\ cargoSpace(liveCargo(sq)) = TransportSpots

\* The conditions of the two transitions.
dropCondition(sq) ==
    /\ sq["Drop"].order.type # "Drop"
    /\ dropComplete(sq)
    /\ \A u \in liveCargo(sq) : isLoaded(u)

loadCondition(sq) ==
    /\ sq["Drop"].order.type # "Drop"
    /\ dropComplete(sq)
    /\ \E u \in liveCargo(sq) : ~isLoaded(u)

\* C9: the drop policy turns the order into Drop (at the drop location, radius
\* 300) exactly when the order is not Drop yet, a living transport is a member,
\* the living cargo takes 8 spots exactly and all of it is loaded.
C9_DropExactlyWhenLoaded ==
    [][(pc = "drop" /\ squadExists(squads, "Drop")) =>
          /\ (squads["Drop"].order.type # "Drop" /\ squads'["Drop"].order.type = "Drop")
                 <=> dropCondition(squads)
          /\ dropCondition(squads)
                 => squads'["Drop"].order = SquadOrder("Drop", getDropLocation, DropRadius)
      ]_vars

\* C9 witness: the drop policy is about to run on a loading squad of a
\* transport and four boarded units of space 2 each.
C9_Witness ==
    /\ pc = "drop"
    /\ squadExists(squads, "Drop")
    /\ squads["Drop"].order.type = "Load"
    /\ Cardinality(liveCargo(squads)) = 4
    /\ \A u \in liveCargo(squads) : spaceRequired(getType(u)) = 2 /\ isLoaded(u)
    /\ liveTransports(squads) # {}

\* The Load order the drop policy gives: at the transport, radius AttackRadius.
isLoadOrder(sq, order) ==
    /\ order.type = "Load"
    /\ order.radius = AttackRadius
    /\ \E t \in liveTransports(sq) : order.position = unitPosition(t)

\* C10 as claimed: the drop policy gives the Load order exactly when the order
\* is not Drop, the squad is complete and some living cargo is not loaded; in
\* every other case with an order that is not Drop the order is left unchanged.
C10_Original ==
    [][(pc = "drop" /\ squadExists(squads, "Drop") /\ squads["Drop"].order.type # "Drop") =>
          /\ loadCondition(squads) => isLoadOrder(squads, squads'["Drop"].order)
          /\ ~loadCondition(squads) => squads'["Drop"].order = squads["Drop"].order
      ]_vars

\* C10 amended: as claimed, but the order is left unchanged only in the cases
\* that are neither the Load case nor the Drop case of C9 (complete and all
\* living cargo loaded), in which the order becomes Drop.
C10_LoadExactlyWhenUnloaded ==
    [][(pc = "drop" /\ squadExists(squads, "Drop") /\ squads["Drop"].order.type # "Drop") =>
          /\ loadCondition(squads) => isLoadOrder(squads, squads'["Drop"].order)
          /\ (~loadCondition(squads) /\ ~dropCondition(squads))
                 => squads'["Drop"].order = squads["Drop"].order
          /\ (~loadCondition(squads) /\ dropCondition(squads))
                 => squads'["Drop"].order.type = "Drop"
      ]_vars

\* C10 witness: the drop policy is about to run on a collecting squad that is
\* complete, with cargo still outside the transport.
C10_Witness ==
    /\ pc = "drop"
    /\ squadExists(squads, "Drop")
    /\ squads["Drop"].order.type = "Hold"
    /\ dropComplete(squads)
    /\ \E u \in liveCargo(squads) : ~isLoaded(u)

----------------------------------------------------------------------------
\* The needs of the base defense squads.

\* The region's remaining threats of the given types that do not fly.
groundThreatsOf(r, types) ==
    {e \in needs[r].threats : ~enemyIsFlying(e) /\ e.type \in types}

\* The region's remaining threats that do not fly and are of none of the types.
groundThreatsBut(r, types) ==
    {e \in needs[r].threats : ~enemyIsFlying(e) /\ e.type \notin types}

\* W of a region: 1 per worker, 2 per zergling, 3 per hydralisk or marine,
\* 5 per zealot, 6 per other threat that does not fly.
weightW(r) ==
    1 * Cardinality(groundThreatsOf(r, Workers))
    + 2 * Cardinality(groundThreatsOf(r, {"Zerg_Zergling"}))
    + 3 * Cardinality(groundThreatsOf(r, {"Zerg_Hydralisk", "Terran_Marine"}))
    + 5 * Cardinality(groundThreatsOf(r, {"Protoss_Zealot"}))
    + 6 * Cardinality(groundThreatsBut(r, Workers \cup {"Zerg_Zergling", "Zerg_Hydralisk",
                                           "Terran_Marine", "Protoss_Zealot"}))

\* The least whole number that is at least 1.2 * n.
ceilOfSixFifths(n) == CHOOSE k \in 0 .. 2 * n : 5 * k >= 6 * n /\ 5 * (k - 1) < 6 * n

\* C11: for every region with remaining threats, the ground defenders needed
\* before static defense is counted are ceil(1.2 * W), W being 1 per enemy
\* worker, 2 per zergling, 3 per hydralisk or marine, 5 per zealot and 6 per
\* other threat that does not fly; flying threats add nothing.
C11_GroundNeedScaled ==
    \A r \in DOMAIN needs : needs[r].scaled = ceilOfSixFifths(weightW(r))

\* C11 witness: the walk met a worker, a zergling and a hydralisk in our main
\* (W = 1 + 2 + 3 = 6, so 7.2 rounds up to 8).
C11_Witness ==
    /\ pc = "recon"
    /\ "home" \in DOMAIN needs
    /\ weightW("home") = 6
    /\ needs["home"].scaled = 8
    /\ Cardinality(needs["home"].threats) = 3

\* Our completed, powered structures of the given types that stand in the
\* region or within 500 of the position of its defense squad's order.
structuresGuarding(r, types) ==
    {b \in scene.ours :
        /\ b.type \in types
        /\ b.completed
        /\ b.powered
        /\ (getRegion(b.pos) = r \/ Abs(b.pos - needs[r].position) < 500)}

\* A: the anti-air structures; G: the anti-ground structures.  No bunkers.
antiAirGuarding(r) ==
    structuresGuarding(r, {"Terran_Missile_Turret", "Protoss_Photon_Cannon",
                           "Zerg_Spore_Colony"})
antiGroundGuarding(r) ==
    structuresGuarding(r, {"Protoss_Photon_Cannon", "Zerg_Sunken_Colony"})

\* C12: the needs passed to updateDefenseSquadUnits are
\* flying = max(0, 2 * flying threats - 3 * A) and
\* ground = max(0, ceil(1.2 * W) - 6 * G), A and G counting our completed,
\* powered static anti-air and anti-ground structures, never bunkers, in the
\* region or within 500 of the squad's order position.
C12_NeedsAfterStaticDefense ==
    pc # "update" =>
        \A r \in DOMAIN needs :
            /\ needs[r].flying =
                   Max(0, 2 * Cardinality({e \in needs[r].threats : enemyIsFlying(e)})
                            - 3 * Cardinality(antiAirGuarding(r)))
            /\ needs[r].ground =
                   Max(0, ceilOfSixFifths(weightW(r)) - 6 * Cardinality(antiGroundGuarding(r)))

\* C12 witness: a vulture and a wraith over a main with a sunken colony and a
\* spore colony: the spore covers the wraith (2 - 3 floored at 0), the sunken
\* takes 6 off the 8 ground defenders.
C12_Witness ==
    /\ pc = "recon"
    /\ "home" \in DOMAIN needs
    /\ Cardinality(antiAirGuarding("home")) = 1
    /\ Cardinality(antiGroundGuarding("home")) = 1
    /\ antiAirGuarding("home") # antiGroundGuarding("home")
    /\ \E e \in needs["home"].threats : enemyIsFlying(e)
    /\ needs["home"].flying = 0
    /\ needs["home"].scaled = 8
    /\ needs["home"].ground = 2

----------------------------------------------------------------------------
\* Scout defense.

\* updateScoutDefenseSquad is about to run and will not return at once.
scoutDefenseRuns ==
    pc = "scoutDefense" /\ world.ScoutDefenseRadius > 0 /\ combatUnits # {}

\* The enemy units in the region of our main base.
enemiesAtHome == {e \in scene.enemies : getRegion(e.pos) = "home"}

\* An enemy worker attack was recorded, and within the last 120 frames.  Attacks
\* are recorded with the frame of the call, which is never 0.
workerAttackRecordedLately ==
    enemyWorkerAttackedAt # 0 /\ enemyWorkerAttackedAt > frame - 120

\* The roster's dragoons in the region of our main that ScoutDefense may take.
scoutChasers ==
    {u \in combatUnits :
        /\ getType(u) = "Protoss_Dragoon"
        /\ getRegion(unitPosition(u)) = "home"
        /\ canAssignUnitToSquad(squads, u, "ScoutDefense")}

\* C13: the chase is disabled, and ScoutDefense left empty, exactly when the
\* main's region holds an enemy that is no overlord and is a non-worker, or a
\* worker while a worker attack was recorded in the last 120 frames; otherwise
\* the chase is enabled (an empty squad takes a dragoon if there is one),
\* in the first 120 frames as later.
C13_ChaseUnlessThreat ==
    [][scoutDefenseRuns =>
          LET threat == \E e \in enemiesAtHome :
                            /\ e.type # "Zerg_Overlord"
                            /\ (~isWorker(e.type) \/ workerAttackRecordedLately)
          IN /\ threat => squads'["ScoutDefense"].units = {}
             /\ (~threat /\ squads["ScoutDefense"].units = {} /\ scoutChasers # {})
                    => squads'["ScoutDefense"].units # {}
      ]_vars

\* C14: with the chase enabled and ScoutDefense empty the policy recruits
\* exactly one dragoon of the main's region that the squad may take, if there
\* is one, and nobody otherwise; it recruits nobody when the squad has a
\* member; and ScoutDefense never has more than one member.
C14_OneChaser ==
    [][/\ scoutDefenseRuns =>
            LET before == squads["ScoutDefense"].units
                after == squads'["ScoutDefense"].units
            IN /\ (chaseScout /\ before = {} /\ scoutChasers # {})
                      => \E u \in scoutChasers : after = {u}
               /\ (chaseScout /\ before = {} /\ scoutChasers = {}) => after = {}
               /\ before # {} => after \subseteq before
               /\ (chaseScout /\ before # {}) => after = before
       /\ squadExists(squads', "ScoutDefense")
            => Cardinality(squads'["ScoutDefense"].units) <= 1
      ]_vars

\* C14 witness: the policy has just taken one of two dragoons standing in the
\* main.
C14_Witness ==
    /\ pc = "baseDefense"
    /\ squadExists(squads, "ScoutDefense")
    /\ Cardinality(squads["ScoutDefense"].units) = 1
    /\ Cardinality({u \in combatUnits : getType(u) = "Protoss_Dragoon"
                                        /\ getRegion(unitPosition(u)) = "home"}) = 2

----------------------------------------------------------------------------
\* Base defense.

\* updateBaseDefenseSquads has just run with units in the roster.
baseDefenseRan == pc = "recon" /\ combatUnits # {}

\* C15: after updateBaseDefenseSquads has run with a non-empty roster, no squad
\* (region defense squad or ScoutDefense) has a Defend order, a member, and no
\* enemy unit within its order's radius of its order's position.
C15_NoDefendersWithoutEnemy ==
    baseDefenseRan =>
        \A n \in DOMAIN squads :
            ~ /\ squads[n].order.type = "Defend"
              /\ squads[n].units # {}
              /\ \A e \in scene.enemies :
                     Abs(e.pos - squads[n].order.position) >= squads[n].order.radius

\* C15 witness: no enemy in sight and two dragoons in the main, so the scout
\* defense policy filled ScoutDefense in this call, and the squad is empty again
\* after the sweep.
C15_Witness ==
    /\ baseDefenseRan
    /\ world.ScoutDefenseRadius > 0
    /\ scene.enemies = {}
    /\ \E u \in combatUnits : getType(u) = "Protoss_Dragoon" /\ getRegion(unitPosition(u)) = "home"
    /\ squads["ScoutDefense"].order.type = "Defend"
    /\ squads["ScoutDefense"].units = {}

\* The enemy units the walk considers in a region: no overlords, observers or
\* lifted buildings.
consideredIn(r) ==
    {e \in scene.enemies :
        /\ e.type \notin {"Zerg_Overlord", "Protoss_Observer"}
        /\ ~e.lifted
        /\ getRegion(e.pos) = r}

\* The threats that remain in a region: the first worker found is taken off
\* when it is not attacking and no worker attack was recorded in the last 120
\* frames.
remainingThreats(r) ==
    LET workers == {e \in consideredIn(r) : isWorker(e.type)}
        first == CHOOSE e \in workers : \A f \in workers : e.id <= f.id
    IN IF workers # {} /\ ~first.attacking /\ ~workerAttackRecordedLately
       THEN consideredIn(r) \ {first}
       ELSE consideredIn(r)

\* C16: after updateBaseDefenseSquads has run with a non-empty roster, the
\* defense squad of every region but the enemy's main region has no members if
\* the region is not occupied by us or has no remaining threat.
C16_NoThreatNoDefenders ==
    baseDefenseRan =>
        \A r \in Regions \ {enemyRegion} :
            (/\ r \notin scene.occupied \/ remainingThreats(r) = {}
             /\ squadExists(squads, squadName(getCenter(r))))
                => squads[squadName(getCenter(r))].units = {}

\* The workers that are in the region's defense squad in registry sq.
workersDefending(sq, r) ==
    IF squadExists(sq, squadName(getCenter(r)))
    THEN {u \in sq[squadName(getCenter(r))].units : isWorker(getType(u))}
    ELSE {}

\* An enemy zergling stands within 300 of our main base.
zerglingAtMain ==
    \E e \in scene.enemies : e.type = "Zerg_Zergling" /\ Abs(e.pos - getPosition("main")) < 300

\* An enemy building stands within 1200 of our main base and we have no
\* combat units.
buildingRushSeen ==
    /\ ~scene.weHaveCombatUnits
    /\ \E e \in scene.enemies : isBuilding(e.type) /\ Abs(e.pos - getPosition("main")) < 1200

\* C17: a worker joins a base defense squad only in a call in which the
\* posture is not aggressive, or WorkersDefendRush is on and either no static
\* ground defense was counted for the region while a zergling is within 300 of
\* the main, or there is a building rush; and only from within 1000 of the
\* squad's order position.
C17_WorkersPulledOnlyWhenAllowed ==
    [][pc = "baseDefense" =>
          \A r \in Regions : \A w \in workersDefending(squads', r) \ workersDefending(squads, r) :
              /\ r \in DOMAIN needs'
              /\ \/ ~goAggressive
                 \/ /\ world.WorkersDefendRush
                    /\ \/ (antiGroundGuarding(r))' = {} /\ zerglingAtMain
                       \/ buildingRushSeen
              /\ Abs(unitPosition(w) - needs'[r].position) <= 1000
      ]_vars

\* C17 witness: under the aggressive posture a worker stands in the defense
\* squad of the main's region while another worker of the roster, more than
\* 1000 away, does not.
C17_Witness ==
    /\ baseDefenseRan
    /\ goAggressive
    /\ "home" \in DOMAIN needs
    /\ \E w \in workersDefending(squads, "home") :
           Abs(unitPosition(w) - needs["home"].position) <= 1000
    /\ \E v \in combatUnits :
           /\ isWorker(getType(v))
           /\ v \notin workersDefending(squads, "home")
           /\ Abs(unitPosition(v) - needs["home"].position) > 1000

----------------------------------------------------------------------------
\* The attack squads.

\* The Flying squad has a member whose type belongs in the Flying squad.
flyingHasMandatoryFlyer ==
    \E m \in squads["Flying"].units :
        getType(m) \in {"Zerg_Mutalisk", "Terran_Wraith", "Terran_Valkyrie",
                        "Terran_Battlecruiser", "Protoss_Corsair", "Protoss_Scout"}

\* The roster's scourge, devourers and carriers that no squad of higher
\* priority than the attack squads holds.
freeOptionalFlyers ==
    {u \in combatUnits :
        /\ getType(u) \in {"Zerg_Scourge", "Zerg_Devourer", "Protoss_Carrier"}
        /\ \A n \in DOMAIN squads : u \in squads[n].units => squads[n].priority <= AttackPriority}

\* C18: after updateAttackSquads every optional flyer of the roster that no
\* higher-priority squad holds is in Flying, and not in Ground, if Flying had a
\* mandatory flyer when the call began, and in Ground, not in Flying, otherwise.
C18_OptionalFlyersFollow ==
    [][pc = "attack" =>
          \A u \in freeOptionalFlyers :
              IF flyingHasMandatoryFlyer
              THEN u \in squads'["Flying"].units /\ u \notin squads'["Ground"].units
              ELSE u \in squads'["Ground"].units /\ u \notin squads'["Flying"].units
      ]_vars

\* C18 witness: updateAttackSquads is about to run with a carrier in Ground and
\* a corsair in Flying, or with a carrier in Flying and no mandatory flyer left
\* there.
C18_Witness ==
    /\ pc = "attack"
    /\ \E u \in freeOptionalFlyers :
           \/ u \in squads["Ground"].units /\ flyingHasMandatoryFlyer
           \/ u \in squads["Flying"].units /\ ~flyingHasMandatoryFlyer

\* updateAttackSquads has just run under the defensive posture.
attackRanDefensive == pc = "bunkers" /\ frame % 8 = 1 /\ ~goAggressive

\* Where the specification puts the hold: the wall's gap center, else the natural base
\* if we own it, else the main base.
holdPoint ==
    IF scene.wall THEN gapCenter
    ELSE IF scene.naturalOwned THEN getPosition("natural")
    ELSE getPosition("main")

\* C19 as claimed: after updateAttackSquads under a defensive posture Ground and
\* Flying both hold at the natural if we own it, else at the main, with radius
\* 400, as a plain Hold; with a wall both hold at its gap center with radius
\* 100 and the kind of both orders is hold-against-wall.
C19_Original ==
    attackRanDefensive =>
        \A n \in {"Ground", "Flying"} :
            /\ squads[n].order.position = holdPoint
            /\ squads[n].order.radius = (IF scene.wall THEN 100 ELSE 400)
            /\ squads[n].order.type = (IF scene.wall THEN "HoldWall" ELSE "Hold")

\* C19 amended: as claimed, except that with a wall only the Ground squad's
\* order is hold-against-wall; the Flying squad's order stays a plain Hold (at
\* the gap center, radius 100).
C19_HoldTheFront ==
    attackRanDefensive =>
        /\ \A n \in {"Ground", "Flying"} :
               /\ squads[n].order.position = holdPoint
               /\ squads[n].order.radius = (IF scene.wall THEN 100 ELSE 400)
        /\ squads["Ground"].order.type = (IF scene.wall THEN "HoldWall" ELSE "Hold")
        /\ squads["Flying"].order.type = "Hold"

\* C19 witness: the defensive orders were given with a wall standing in front
\* of a natural we own.
C19_Witness ==
    /\ attackRanDefensive
    /\ scene.wall
    /\ scene.naturalOwned
    /\ squads["Ground"].order = SquadOrder("HoldWall", gapCenter, 100)
    /\ squads["Flying"].order = SquadOrder("Hold", gapCenter, 100)

----------------------------------------------------------------------------
\* The recon squad's weight limit.

\* How many units of the given types the roster has.
rosterCount(types) == Cardinality({u \in combatUnits : getType(u) \in types})

\* The recon weight of the whole roster.
availableReconWeight ==
    2 * rosterCount({"Zerg_Zergling", "Terran_Marine", "Terran_Medic"})
    + 3 * rosterCount({"Zerg_Hydralisk"})
    + 4 * rosterCount({"Terran_Vulture", "Protoss_Zealot", "Protoss_Dragoon",
                       "Protoss_Dark_Templar"})
    + 6 * rosterCount({"Terran_Siege_Tank_Tank_Mode", "Terran_Siege_Tank_Siege_Mode"})

\* The cap as claimed: 0 below 24, else 2 + floor((available - 24) / 6), at
\* most 12.
claimedReconCap ==
    IF availableReconWeight < 24 THEN 0
    ELSE LET k == CHOOSE q \in 0 .. availableReconWeight :
                      6 * q <= availableReconWeight - 24
                      /\ availableReconWeight - 24 < 6 * (q + 1)
         IN IF 2 + k < 12 THEN 2 + k ELSE 12

\* C20: the weight limit updateReconSquad computes is 0 when the roster's
\* recon weight is below 24 and min(12, 2 + floor((available - 24) / 6))
\* otherwise (30 gives 3), and with a limit of 0 the Recon squad is left
\* without members.
C20_ReconCap ==
    [][pc = "recon" =>
          /\ reconWeightLimit = claimedReconCap
          /\ availableReconWeight = 30 => reconWeightLimit = 3
          /\ claimedReconCap = 0 => squads'["Recon"].units = {}
      ]_vars

\* C20 witness: updateReconSquad is about to run, aggressive, on a roster of
\* recon weight 30.
C20_Witness ==
    /\ pc = "recon"
    /\ goAggressive
    /\ availableReconWeight = 30
    /\ reconWeightLimit = 3

----------------------------------------------------------------------------
\* The schedule of update().

\* update() has returned.
updateReturned == pc = "game"

\* The step was taken in this call; how many times; where first (past the end
\* of the call if it was not).
didRun(step) == \E i \in 1 .. Len(ran) : ran[i] = step
timesRun(step) == Cardinality({i \in 1 .. Len(ran) : ran[i] = step})
firstRun(step) ==
    IF didRun(step)
    THEN CHOOSE i \in 1 .. Len(ran) : ran[i] = step /\ \A j \in 1 .. i - 1 : ran[j] # step
    ELSE Len(ran) + 1

allocationPolicies == {"idle", "drop", "scoutDefense", "baseDefense", "recon", "attack"}

\* C21: the six allocation policies run exactly in the calls whose frame count
\* mod 8 is 1; doComsatScan runs exactly in the calls whose frame count mod 8
\* is 2 or 6, never together with the policies; loadOrUnloadBunkers, the
\* registry's update and cancelDyingItems run in every call.
C21_Schedule ==
    updateReturned =>
        /\ \A p \in allocationPolicies : didRun(p) <=> frame % 8 = 1
        /\ didRun("comsat") <=> frame % 8 \in {2, 6}
        /\ ~(didRun("comsat") /\ \E p \in allocationPolicies : didRun(p))
        /\ \A v \in {"bunkers", "squads", "cancel"} : timesRun(v) = 1

\* C21 witness: a call at a frame count of 6 mod 8 has returned, the scan done.
C21_Witness ==
    /\ updateReturned
    /\ frame % 8 = 6
    /\ ran = <<"comsat", "bunkers", "squads", "cancel">>

\* C22 as claimed: in every call the policies come first, then the registry's
\* update, then the valves: loadOrUnloadBunkers and cancelDyingItems both run
\* after the squads have been advanced.
C22_Original ==
    updateReturned =>
        /\ \A i \in 1 .. Len(ran) :
               ran[i] \in allocationPolicies \cup {"comsat"} => i < firstRun("squads")
        /\ firstRun("squads") < firstRun("bunkers")
        /\ firstRun("squads") < firstRun("cancel")

\* C22 amended: in every call the policies (or the scan) come first, then
\* loadOrUnloadBunkers, then the registry's update, then cancelDyingItems: of
\* the two valves only the cancellation runs after the squads have been advanced.
C22_PhaseOrder ==
    updateReturned =>
        /\ \A i \in 1 .. Len(ran) :
               ran[i] \in allocationPolicies \cup {"comsat"} => i < firstRun("bunkers")
        /\ firstRun("bunkers") < firstRun("squads")
        /\ firstRun("squads") < firstRun("cancel")
        /\ firstRun("cancel") = Len(ran)

\* C22 witness: a call that ran the policies has returned.
C22_Witness ==
    /\ updateReturned
    /\ Len(ran) = 9
    /\ SubSeq(ran, 7, 9) = <<"bunkers", "squads", "cancel">>

----------------------------------------------------------------------------
\* The point of attack.

\* updateAttackSquads has just run under the aggressive posture.
attackRanAggressive == pc = "bunkers" /\ frame % 8 = 1 /\ goAggressive

AttackSquads == {"Ground", "Flying"}

\* What the named squad has and can do.
squadHasGround(name) == \E u \in squads[name].units : ~isFlyer(getType(u))
squadHasAir(name) == \E u \in squads[name].units : isFlyer(getType(u))
squadHitsGround(name) == \E u \in squads[name].units : getType(u) \in GroundWeapon
squadHitsAir(name) == \E u \in squads[name].units : getType(u) \in AirWeapon

\* The known enemy bases.
knownBases == {scene.enemyBases[i] : i \in DOMAIN scene.enemyBases}

\* The last positions of the remembered enemy structures not flagged as vacated.
standingStructures ==
    {ui.lastPosition : ui \in {k \in scene.known : /\ k.type \in Buildings
                                                   /\ k.lastPosition # Invalid
                                                   /\ ~k.goneFromLastPosition}}

\* The positions of the enemy units among es that the named squad can attack.
attackablePositions(name, es) ==
    {e.pos : e \in {f \in es : /\ f.detected
                               /\ f.pos # Invalid
                               /\ IF enemyIsFlying(f) THEN squadHitsAir(name)
                                  ELSE squadHitsGround(name)}}

\* The waterfall: the points the first matching source allows.  structures
\* tells whether the squad may use the second source, targets are the enemy
\* units of the third, byGround is how the fourth explores.
waterfall(name, structures, targets, byGround) ==
    IF squadHitsGround(name) /\ knownBases # {} THEN knownBases
    ELSE IF structures /\ standingStructures # {} THEN standingStructures
    ELSE IF attackablePositions(name, targets) # {} THEN attackablePositions(name, targets)
    ELSE {getLeastExplored(byGround)}

\* Both attack squads have an Attack order of radius 800 at a point from points.
attackOrderedAt(points(_)) ==
    \A name \in AttackSquads :
        /\ squads[name].order.type = "Attack"
        /\ squads[name].order.radius = 800
        /\ squads[name].order.position \in points(name)

\* C23 as claimed: the second source serves any squad, the third takes any
\* visible, detected enemy unit the squad can attack, and the fourth explores
\* by air exactly when the squad has no ground unit.
C23_Original ==
    attackRanAggressive =>
        LET points(name) == waterfall(name, TRUE, {e \in scene.enemies : e.visible},
                                      squadHasGround(name))
        IN attackOrderedAt(points)

\* C23: under the aggressive posture Ground and Flying each get an Attack order
\* of radius 800 at the first source that matches for that squad: (1) a known
\* enemy base, if the squad can attack ground; (2) the last position of a
\* remembered enemy structure not flagged as vacated, if the squad can attack
\* ground or the enemy is Terran; (3) the position of an existing, detected
\* enemy unit other than a larva that the squad can attack (air weapon for a
\* flying target, ground weapon for a ground target); (4) the least explored
\* location, reachable by ground exactly when the squad has ground units and no
\* air units.
C23_AttackPoint ==
    attackRanAggressive =>
        LET points(name) ==
                waterfall(name,
                          squadHitsGround(name) \/ world.enemyRace = "Terran",
                          {e \in scene.enemies : e.exists /\ e.type # "Zerg_Larva"},
                          squadHasGround(name) /\ ~squadHasAir(name))
        IN attackOrderedAt(points)

\* C23 witness: a Flying squad of a corsair, which cannot attack ground, passes
\* over the remembered spore colony of a Zerg enemy and explores, while the
\* Ground squad goes for the colony.
C23_Witness ==
    /\ attackRanAggressive
    /\ world.enemyRace = "Zerg"
    /\ squads["Flying"].units # {}
    /\ ~squadHitsGround("Flying")
    /\ standingStructures = {3200}
    /\ squads["Flying"].order = SquadOrder("Attack", getLeastExplored(FALSE), 800)
    /\ squads["Ground"].order = SquadOrder("Attack", 3200, 800)

\* The remembered enemy buildings and slow defensive units within 600 of the
\* base that can engage the named squad's ground or air members.
defendersOf(base, name) ==
    {ui \in scene.known :
        /\ Abs(ui.lastPosition - base) <= 600
        /\ ui.type \in Buildings \cup {"Terran_Siege_Tank_Tank_Mode",
                                       "Terran_Siege_Tank_Siege_Mode", "Protoss_Reaver",
                                       "Zerg_Lurker", "Zerg_Guardian"}
        /\ \/ squadHasGround(name) /\ ui.type \in GroundWeapon
           \/ squadHasAir(name) /\ ui.type \in AirWeapon}

\* The heuristic defense score of the base for the named squad.
defenseScore(base, name) == 0 - Cardinality(defendersOf(base, name))

\* The first enumerated of the known bases whose score for the squad stands in
\* relation better(_, _) to no other's, ties going to the earlier base.
firstBaseBy(name, better(_, _)) ==
    LET bases == scene.enemyBases
        i == CHOOSE k \in DOMAIN bases :
                 /\ \A j \in DOMAIN bases :
                        ~better(defenseScore(bases[j], name), defenseScore(bases[k], name))
                 /\ \A j \in 1 .. k - 1 :
                        defenseScore(bases[j], name) # defenseScore(bases[k], name)
    IN bases[i]

\* A squad that can attack ground has just been given its point of attack
\* while enemy bases are known.
basesOffered(name) ==
    attackRanAggressive /\ squadHitsGround(name) /\ scene.enemyBases # <<>>

\* C28 as claimed: the squad is sent to the known enemy base whose score is
\* lowest, the first enumerated among equals.
C28_Original ==
    \A name \in AttackSquads :
        basesOffered(name) =>
            LET lower(a, b) == a < b
            IN squads[name].order.position = firstBaseBy(name, lower)

\* C28: a squad that can attack ground, with at least one enemy base known, is
\* sent to the known enemy base whose score is highest (the fewest defenders),
\* the score of a base being minus the number of enemy buildings and slow
\* defensive units within 600 of it that can engage the squad's ground or air
\* members; among bases of equal score the first enumerated is chosen.
C28_WeakestBase ==
    \A name \in AttackSquads :
        basesOffered(name) =>
            LET higher(a, b) == a > b
            IN squads[name].order.position = firstBaseBy(name, higher)

\* C28 witness: a Ground squad with an observer is sent to the main with its
\* one sunken colony, the expansion's two spore colonies counting against it.
C28_Witness ==
    /\ basesOffered("Ground")
    /\ squadHasAir("Ground")
    /\ defenseScore(3600, "Ground") = 0 - 1
    /\ defenseScore(2200, "Ground") = 0 - 2
    /\ squads["Ground"].order.position = 3600

----------------------------------------------------------------------------
\* The assertions.

\* The squads that defend a region.
defenseSquads == {n \in DOMAIN squads : squads[n].priority = BaseDefensePriority}

----------------------------------------------------------------------------
\* The Drop squad while it collects.

\* updateDropSquads has just run.
dropRan == pc = "scoutDefense" /\ squadExists(squads, "Drop")

\* The units that joined the Drop squad in this call.
joinedUnits == {joined[i] : i \in DOMAIN joined}

\* The call started with no live transport in the squad, and not yet told to drop.
startedWithoutTransport ==
    /\ dropRan
    /\ squads["Drop"].order.type # "Drop"
    /\ ~\E u \in squads["Drop"].units \ joinedUnits : exists(u) /\ isTransport(u)

\* C25 as claimed: in a call that starts with no transport in the squad, no
\* unit other than a transport is added before a transport has been added.
C25_Original ==
    startedWithoutTransport =>
        \A i \in DOMAIN joined :
            ~isTransport(joined[i]) => \E j \in 1 .. i - 1 : isTransport(joined[j])

\* C25: in a call of updateDropSquads that starts with no transport in the
\* squad, the units are added in roster order: the first transport of the
\* roster is added when the walk reaches it and no other transport is, and the
\* units good to drop that come before it in the roster, or that are there when
\* the roster has no transport, are added before a transport has been.
C25_TransportInRosterOrder ==
    startedWithoutTransport =>
        LET transports == {u \in combatUnits : isTransport(u)}
        IN /\ \A i, j \in DOMAIN joined : i < j => joined[i] < joined[j]
           /\ {u \in joinedUnits : isTransport(u)}
                  = IF transports = {} THEN {} ELSE {Min(transports)}

\* C25 witness: a dark templar that comes before the shuttle in the roster
\* joined the empty squad first, then the shuttle, then more dark templar.
C25_Witness ==
    /\ startedWithoutTransport
    /\ Len(joined) >= 3
    /\ ~isTransport(joined[1])
    /\ isTransport(joined[2])
    /\ ~isTransport(joined[3])

\* The live members of the Drop squad.
liveDropMembers == {u \in squads["Drop"].units : u \notin dead}

\* C26: in every state every live member of the Drop squad is a transport or of
\* a type good to drop, at most one live member is a transport, and the live
\* members that are not transports need at most 8 cargo spots together.
C26_DropSquadFits ==
    squadExists(squads, "Drop") =>
        LET transports == {u \in liveDropMembers : isTransport(u)}
        IN /\ \A u \in liveDropMembers \ transports :
                  world.types[u] \in {"Protoss_Dark_Templar", "Terran_Vulture"}
           /\ Cardinality(transports) <= 1
           /\ cargoSpace(liveDropMembers \ transports) <= 8

\* C26 witness: the first shuttle is lost, the second has taken its place, and
\* four dark templar fill it while a fifth and the zealot stay out.
C26_Witness ==
    /\ dropRan
    /\ \E t \in squads["Drop"].units : t \in dead /\ isTransport(t)
    /\ \E t \in liveDropMembers : isTransport(t)
    /\ cargoSpace({u \in liveDropMembers : ~isTransport(u)}) = 8
    /\ \E u \in combatUnits \ squads["Drop"].units : world.types[u] = "Protoss_Dark_Templar"
    /\ \E u \in combatUnits \ squads["Drop"].units : world.types[u] = "Protoss_Zealot"

----------------------------------------------------------------------------
\* The priority of the Drop squad.

\* The squads whose priority the specification compares with Drop's: the attack squads
\* and the squads that defend a region.
attackAndDefenseSquads == {"Ground", "Flying"} \cup defenseSquads

\* C27 as claimed: the Drop squad's priority is lower than that of the attack
\* squads and of the base defense squads.
C27_Original ==
    squadExists(squads, "Drop") =>
        \A n \in attackAndDefenseSquads : squads["Drop"].priority < squads[n].priority

\* C27: the Drop squad's priority is higher than that of the attack squads, of
\* the base defense squads and of every other squad of the registry, so that
\* the priority comparison alone keeps the other squads from raiding it.
C27_DropOutranksAll ==
    squadExists(squads, "Drop") =>
        /\ \A n \in DOMAIN squads \ {"Drop"} : squads[n].priority < squads["Drop"].priority
        /\ \A n \in DOMAIN squads \ {"Drop"} :
               \A u \in squads["Drop"].units : ~canAssignUnitToSquad(squads, u, n)

\* C27 witness: the Drop squad holds dark templar while a base defense squad,
\* the scout defense squad and the attack squads are in the registry.
C27_Witness ==
    /\ squadExists(squads, "Drop")
    /\ squads["Drop"].units # {}
    /\ defenseSquads # {}
    /\ squadExists(squads, "ScoutDefense")
    /\ pc = "game"

----------------------------------------------------------------------------
\* The choice of a defender.

\* How far the unit is from the position of the squad's order.
awayFrom(u, n) == Abs(world.pos[u] - squads[n].order.position)

\* The roster units with the attack capability asked for that squad n may take.
eligibleFor(n, flying) ==
    {u \in combatUnits :
        /\ world.types[u] \in (IF flying THEN AirWeapon ELSE GroundWeapon)
        /\ \A m \in DOMAIN squads : u \in squads[m].units => squads[m].priority < squads[n].priority}

\* The eligible workers: only if workers may be pulled, and within 1000.
eligibleWorkers(n, flying, pull) ==
    {u \in eligibleFor(n, flying) : world.types[u] \in Workers /\ pull /\ awayFrom(u, n) <= 1000}

eligibleNonWorkers(n, flying) == {u \in eligibleFor(n, flying) : world.types[u] \notin Workers}

\* The units of S nearest to the position of squad n's order.
nearestOf(S, n) == {u \in S : \A v \in S : awayFrom(u, n) <= awayFrom(v, n)}

\* The worker is preferred: there is an eligible worker, and no eligible
\* non-worker or the nearest worker is strictly closer than the nearest
\* non-worker, which is more than 200 away.
workerPreferred(n, flying, pull) ==
    /\ eligibleWorkers(n, flying, pull) # {}
    /\ \/ eligibleNonWorkers(n, flying) = {}
       \/ \E w \in eligibleWorkers(n, flying, pull) :
              \A d \in nearestOf(eligibleNonWorkers(n, flying), n) :
                  awayFrom(w, n) < awayFrom(d, n) /\ awayFrom(d, n) > 200

\* The defenders the specification allows findClosestDefender to return.
claimedDefenders(n, flying, pull) ==
    IF workerPreferred(n, flying, pull) THEN nearestOf(eligibleWorkers(n, flying, pull), n)
    ELSE IF eligibleNonWorkers(n, flying) # {} THEN nearestOf(eligibleNonWorkers(n, flying), n)
    ELSE {NoUnit}

\* C29: for every defense squad of the registry, asked for a flying or a ground
\* defender, with or without workers: findClosestDefender returns the nearest
\* eligible non-worker, unless a worker is preferred, and then the nearest
\* eligible worker; it returns nothing when no unit is eligible.
C29_ClosestDefender ==
    \A n \in defenseSquads : \A flying, pull \in BOOLEAN :
        findClosestDefender(squads, n, squads[n].order.position, flying, pull)
            \in claimedDefenders(n, flying, pull)

\* C29 witness: the base defense policy is about to run; for a ground defender
\* with workers pulled a probe is chosen although a non-worker is eligible,
\* and without workers that non-worker is chosen; some ground unit of the
\* roster is not eligible.
C29_Witness ==
    /\ pc = "baseDefense"
    /\ \E n \in defenseSquads :
           /\ eligibleNonWorkers(n, FALSE) # {}
           /\ isWorker(getType(findClosestDefender(squads, n, squads[n].order.position,
                                                   FALSE, TRUE)))
           /\ findClosestDefender(squads, n, squads[n].order.position, FALSE, FALSE)
                  \in eligibleNonWorkers(n, FALSE)
           /\ \E u \in combatUnits : CanAttackGround(u) /\ u \notin eligibleFor(n, FALSE)

----------------------------------------------------------------------------
\* The defense squad after updateDefenseSquadUnits.

\* The regions the walk has been through when it is done with region r.
regionsUpTo(r) ==
    SubSeq(RegionsInOrder, 1, CHOOSE i \in DOMAIN RegionsInOrder : RegionsInOrder[i] = r)

\* The walk of updateBaseDefenseSquads when it is done with region r, the policy
\* being about to run.
walkedTo(r) ==
    RegionLoop([sq |-> squads, attackedAt |-> enemyWorkerAttackedAt, needs |-> <<>>,
                failed |-> {}],
               regionsUpTo(r))

\* updateDefenseSquadUnits is about to be called for region r with a need that
\* is not zero.
defendersWanted(r) ==
    /\ pc = "baseDefense"
    /\ combatUnits # {}
    /\ r \in DOMAIN walkedTo(r).needs
    /\ walkedTo(r).needs[r].flying > 0 \/ walkedTo(r).needs[r].ground > 0

\* The members of region r's squad when updateDefenseSquadUnits has returned.
defendersOfRegion(r) == walkedTo(r).sq[squadName(getCenter(r))].units

\* The roster units that could still be taken for region r's squad then.
remainingFor(r, flying) ==
    LET w == walkedTo(r)
        n == squadName(getCenter(r))
    IN {u \in combatUnits :
           /\ world.types[u] \in (IF flying THEN AirWeapon ELSE GroundWeapon)
           /\ \A m \in DOMAIN w.sq : u \in w.sq[m].units => w.sq[m].priority < w.sq[n].priority
           /\ world.types[u] \in Workers =>
                  /\ w.needs[r].pullWorkers
                  /\ ~flying
                  /\ Abs(world.pos[u] - w.needs[r].position) <= 1000}

\* The ground strength of a set of units: 1 per worker, 4 per zealot, 5 per
\* other unit.
groundStrength(us) ==
    Cardinality({u \in us : world.types[u] \in Workers})
    + 4 * Cardinality({u \in us : world.types[u] = "Protoss_Zealot"})
    + 5 * Cardinality({u \in us : world.types[u] \notin Workers \cup {"Protoss_Zealot"}})

\* Enough air-capable members, or no flying-capable defender left to take.
enoughAgainstAir(r) ==
    \/ Cardinality({u \in defendersOfRegion(r) : world.types[u] \in AirWeapon})
           >= walkedTo(r).needs[r].flying
    \/ remainingFor(r, TRUE) = {}

\* Enough ground strength, or no ground-capable defender left to take.
enoughAgainstGround(r) ==
    \/ groundStrength(defendersOfRegion(r)) >= walkedTo(r).needs[r].ground
    \/ remainingFor(r, FALSE) = {}

\* A worker of one of the types is a member only if the ground strength does
\* not exceed the ground need.
noExcessWorker(r, types) ==
    (\E u \in defendersOfRegion(r) : world.types[u] \in types)
        => groundStrength(defendersOfRegion(r)) <= walkedTo(r).needs[r].ground

\* C30: after updateDefenseSquadUnits returns with a need that is not zero, the
\* squad has as many air-capable members as the flying need or no eligible
\* flying-capable defender remains, its ground strength is at least the ground
\* need or no eligible ground-capable defender remains, and it holds a worker
\* only if its ground strength does not exceed the ground need.
C30_DefendersSuffice ==
    \A r \in Regions :
        defendersWanted(r) =>
            /\ enoughAgainstAir(r)
            /\ enoughAgainstGround(r)
            /\ noExcessWorker(r, Workers)

----------------------------------------------------------------------------
\* The taxonomy of the attack squads.

\* The pure air combatants.
mandatoryFlyingTypes ==
    {"Zerg_Mutalisk", "Terran_Wraith", "Terran_Valkyrie", "Terran_Battlecruiser",
     "Protoss_Corsair", "Protoss_Scout"}

\* The types that follow the Flying squad if there is one.
optionalFlyingTypes == {"Zerg_Scourge", "Zerg_Devourer", "Protoss_Carrier"}

\* updateAttackSquads has just run.
attackRan == pc = "bunkers" /\ frame % 8 = 1

\* The unit is a member of a squad of higher priority than the attack squads.
heldAboveAttack(u) ==
    \E n \in DOMAIN squads : u \in squads[n].units /\ squads[n].priority > AttackPriority

\* C31: in every reachable state Ground holds no unit of a mandatory-flying
\* type, Flying holds only units of mandatory-flying type, of optional-flying
\* type and detectors, and neither holds a worker; after updateAttackSquads
\* every roster unit of mandatory-flying type that no higher-priority squad
\* holds is in Flying.
C31_Taxonomy ==
    /\ "Ground" \in DOMAIN squads =>
           \A u \in squads["Ground"].units :
               getType(u) \notin mandatoryFlyingTypes /\ getType(u) \notin Workers
    /\ "Flying" \in DOMAIN squads =>
           \A u \in squads["Flying"].units :
               /\ getType(u) \in mandatoryFlyingTypes \cup optionalFlyingTypes \cup Detectors
               /\ getType(u) \notin Workers
    /\ attackRan =>
           \A u \in combatUnits :
               (getType(u) \in mandatoryFlyingTypes /\ ~heldAboveAttack(u))
                   => u \in squads["Flying"].units

\* C31 witness: updateAttackSquads has run with a worker in the roster and a
\* corsair held by a defense squad; another corsair, a carrier and an observer
\* are in Flying and Ground has a fighting member.
C31_Witness ==
    /\ attackRan
    /\ \E u \in combatUnits : getType(u) \in Workers
    /\ \E u \in combatUnits : getType(u) = "Protoss_Corsair" /\ heldAboveAttack(u)
    /\ \E u \in squads["Flying"].units : getType(u) = "Protoss_Corsair"
    /\ \E u \in squads["Flying"].units : getType(u) = "Protoss_Carrier"
    /\ \E u \in squads["Flying"].units : getType(u) \in Detectors
    /\ \E u \in squads["Ground"].units : getType(u) \notin Detectors

----------------------------------------------------------------------------
\* The detectors of the attack squads.

\* The detectors among the members of a squad.
detectorsIn(sq, name) == {u \in sq[name].units : getType(u) \in Detectors}

\* The squad has a member that is not a detector and no detector.
wantsDetector(name) ==
    /\ \E u \in squads[name].units : getType(u) \notin Detectors
    /\ detectorsIn(squads, name) = {}

\* The roster's detectors that the attack squads may take, Ground and Flying
\* having the same priority.
admissibleDetectors ==
    {u \in combatUnits :
        /\ getType(u) \in Detectors
        /\ \A n \in DOMAIN squads : u \in squads[n].units => squads[n].priority < AttackPriority}

\* updateAttackSquads runs and does not abort.
attackRuns == pc = "attack" /\ pc' = "bunkers"

\* C32: in every reachable state Ground and Flying hold at most one detector
\* each; updateAttackSquads adds a detector only to a squad that had a member
\* other than a detector and no detector when the call began, and when both
\* squads were such the first admissible detector of the roster goes to Ground.
C32_OneDetectorEach ==
    /\ [](\A n \in AttackSquads \cap DOMAIN squads :
              Cardinality(detectorsIn(squads, n)) <= 1)
    /\ [][attackRuns =>
              /\ \A n \in AttackSquads :
                     detectorsIn(squads', n) \ detectorsIn(squads, n) # {}
                         => wantsDetector(n)
              /\ (wantsDetector("Ground") /\ wantsDetector("Flying")
                      /\ admissibleDetectors # {})
                     => Min(admissibleDetectors) \in squads'["Ground"].units
      ]_vars

\* C32 witness: updateAttackSquads is about to run with two admissible
\* detectors while Ground and Flying both have fighting members and no detector.
C32_Witness ==
    /\ pc = "attack"
    /\ wantsDetector("Ground")
    /\ wantsDetector("Flying")
    /\ flyingHasMandatoryFlyer
    /\ Cardinality(admissibleDetectors) >= 2

----------------------------------------------------------------------------
\* The reconnaissance target.

\* One of the reasons to change the target holds: there is no candidate, the
\* target is invalid, 40 * 24 frames have passed since the last change, or the
\* target is in sight and no enemy that does not fly is within 400 of it.
targetIsDue ==
    \/ scene.neutralBases = {}
    \/ reconTarget = Invalid
    \/ frame - lastReconTargetChange >= 40 * 24
    \/ /\ reconTarget \in scene.visible
       /\ ~\E e \in scene.enemies : ~enemyIsFlying(e) /\ Abs(e.pos - reconTarget) <= 400

\* updateReconSquad runs and does not abort.
reconRuns == pc = "recon" /\ pc' = "attack"

\* C33: chooseReconTarget replaces the target and stamps the frame exactly
\* when a reason to change holds (the target becomes invalid if there is no
\* candidate, a neutral base otherwise), and else leaves both alone; the target
\* is always invalid or a base that was neutral when chosen; the Recon squad is
\* empty after an updateReconSquad with an invalid target or under the
\* defensive posture.
C33_ReconTarget ==
    /\ [](reconTarget = Invalid
          \/ reconTarget \in UNION {sc.neutralBases : sc \in world.scenes})
    /\ [][reconRuns =>
              /\ goAggressive =>
                     IF targetIsDue
                     THEN /\ lastReconTargetChange' = frame
                          /\ IF scene.neutralBases = {}
                             THEN reconTarget' = Invalid
                             ELSE reconTarget' \in scene.neutralBases
                     ELSE UNCHANGED <<reconTarget, lastReconTargetChange>>
              /\ (~goAggressive \/ reconTarget' = Invalid) => squads'["Recon"].units = {}
      ]_vars

\* C33 witness: updateReconSquad is about to run under the aggressive posture
\* exactly 40 * 24 frames after the last change, the target being valid and out
\* of sight, a candidate existing and the Recon squad having a member.
C33_Witness ==
    /\ pc = "recon"
    /\ goAggressive
    /\ reconTarget # Invalid
    /\ scene.neutralBases # {}
    /\ reconTarget \notin scene.visible
    /\ frame - lastReconTargetChange = 40 * 24
    /\ squads["Recon"].units # {}

----------------------------------------------------------------------------
\* The detector of the Recon squad.

\* The recon weight of a set of units: 2 per zergling, marine or medic, 3 per
\* hydralisk, 4 per vulture, zealot, dragoon or dark templar, 6 per tank.
reconWeightOf(us) ==
    2 * Cardinality({u \in us : getType(u) \in {"Zerg_Zergling", "Terran_Marine",
                                                "Terran_Medic"}})
    + 3 * Cardinality({u \in us : getType(u) = "Zerg_Hydralisk"})
    + 4 * Cardinality({u \in us : getType(u) \in {"Terran_Vulture", "Protoss_Zealot",
                                                  "Protoss_Dragoon", "Protoss_Dark_Templar"}})
    + 6 * Cardinality({u \in us : getType(u) \in {"Terran_Siege_Tank_Tank_Mode",
                                                  "Terran_Siege_Tank_Siege_Mode"}})

\* updateReconSquad has just run.
reconRan == pc = "attack"

\* After updateReconSquad a Recon squad without recon weight is empty.
noDetectorAlone == reconRan => (reconWeightOf(squads["Recon"].units) = 0
                                    => squads["Recon"].units = {})

\* After updateReconSquad the Recon squad holds at most one detector.
oneReconDetector == reconRan => Cardinality(detectorsIn(squads, "Recon")) <= 1

\* updateReconSquad admits a detector only when the roster holds two or more.
detectorSpared ==
    reconRuns =>
        (detectorsIn(squads', "Recon") \ detectorsIn(squads, "Recon") # {}
             => Cardinality({u \in combatUnits : getType(u) \in Detectors}) >= 2)

\* C34: after every updateReconSquad the Recon squad is empty if the recon
\* weight of its members is zero, so it is never a detector alone; it holds at
\* most one detector; and a detector is admitted only when the roster holds at
\* least two detectors.
C34_NoDetectorAlone ==
    /\ []noDetectorAlone
    /\ []oneReconDetector
    /\ [][detectorSpared]_vars

----------------------------------------------------------------------------
\* Medics without marines in the Recon squad.

\* updateReconSquad is about to find medics and no marine in the Recon squad:
\* the posture is aggressive and there is somewhere to look.
medicsWithoutMarines ==
    /\ pc = "recon"
    /\ goAggressive
    /\ scene.neutralBases # {}
    /\ \E u \in squads["Recon"].units : getType(u) = "Terran_Medic"
    /\ ~\E u \in squads["Recon"].units : getType(u) = "Terran_Marine"

\* The registry with the members of Recon released.
reconReleased ==
    [squads EXCEPT !["Recon"].units = {}]

\* C35 as stated: when updateReconSquad finds medics and no marine in the
\* Recon squad, the squad is empty at the end of that call.
C35_Original ==
    [][(medicsWithoutMarines /\ reconRuns) => squads'["Recon"].units = {}]_vars

\* C35 amended: when updateReconSquad finds medics and no marine in the Recon
\* squad, it clears the squad and rebuilds it in the same call: at the end of
\* the call the squad has the members the policy gives an empty Recon squad,
\* and it holds a medic only if it holds a marine.
C35_RebuiltAtOnce ==
    [][(medicsWithoutMarines /\ reconRuns) =>
          /\ \E target \in scene.neutralBases :
                 squads'["Recon"].units
                     = updateReconSquad(reconReleased, target).sq["Recon"].units
          /\ (\E u \in squads'["Recon"].units : getType(u) = "Terran_Medic")
                 => \E u \in squads'["Recon"].units : getType(u) = "Terran_Marine"
      ]_vars

\* C35 witness: updateReconSquad is about to find a medic and no marine in the
\* Recon squad while a marine of the roster is free to join.
C35_Witness ==
    /\ medicsWithoutMarines
    /\ \E u \in combatUnits :
           /\ getType(u) = "Terran_Marine"
           /\ \A n \in DOMAIN squads : u \in squads[n].units => squads[n].priority < ReconPriority
    /\ reconWeightLimit >= 2

----------------------------------------------------------------------------
\* The directive of a defense squad.

\* updateBaseDefenseSquads runs and does not abort.
baseDefenseRuns == pc = "baseDefense" /\ pc' = "recon"

\* C36: for every region we occupy that has remaining threats,
\* updateBaseDefenseSquads sets the order of the region's squad to Defend at the
\* region's center with radius 32 * 25 if the posture is aggressive or the
\* region is our main's, and else to the order Ground holds when the policy
\* runs; only updateAttackSquads and the initialization give Ground an order, so
\* that order is the one of the previous full-allocation tick or the initial one.
C36_DefenseDirective ==
    /\ [][baseDefenseRuns =>
              \A r \in DOMAIN needs' :
                  squads'[squadName(getCenter(r))].order =
                      IF goAggressive \/ r = "home"
                      THEN [type |-> "Defend", position |-> getCenter(r), radius |-> 32 * 25]
                      ELSE squads["Ground"].order
      ]_vars
    /\ [][("Ground" \in DOMAIN squads /\ pc # "attack")
              => squads'["Ground"].order = squads["Ground"].order
      ]_vars

\* C36 witness: updateBaseDefenseSquads has run under the defensive posture
\* with threats in our natural, and the natural's squad has the Attack order
\* that Ground got in an earlier tick.
C36_Witness ==
    /\ pc = "recon"
    /\ ~goAggressive
    /\ "natural" \in DOMAIN needs
    /\ squads[squadName(getCenter("natural"))].order = squads["Ground"].order
    /\ squads["Ground"].order.type = "Attack"
    /\ ticks >= 2

----------------------------------------------------------------------------
\* How a unit changes squads.

\* The step in which the policy of the squad runs.
policyOf(sq, name) ==
    IF name = "Idle" THEN "idle"
    ELSE IF name = "Drop" THEN "drop"
    ELSE IF name = "ScoutDefense" THEN "scoutDefense"
    ELSE IF name = "Recon" THEN "recon"
    ELSE IF name \in {"Ground", "Flying"} THEN "attack"
    ELSE IF sq[name].priority = BaseDefensePriority THEN "baseDefense"
    ELSE "(none)"

\* The unit is in squad S before the step and in no squad after it: the policy
\* of S cleared or trimmed S, or a defense squad took the probe from S and the
\* same call removed it as an excess worker, or the sweep at the end of
\* updateBaseDefenseSquads cleared S, a squad with a Defend order.
released(u, S) ==
    \/ /\ pc = policyOf(squads, S)
       /\ \/ squads'[S].units = {}
          \/ S = "Recon"
          \/ squads[S].priority = BaseDefensePriority /\ getType(u) = "Protoss_Probe"
    \/ /\ pc = "baseDefense"
       /\ squads[S].priority < BaseDefensePriority
       /\ getType(u) = "Protoss_Probe"
    \/ /\ pc = "baseDefense"
       /\ squads'[S].order.type = "Defend"
       /\ squads'[S].units = {}

\* The unit is in squad S before the step and in squad T after it.
taken(u, S, T) ==
    /\ pc = policyOf(squads', T)
    /\ \/ squads[S].priority < squads'[T].priority
       \/ /\ {S, T} = {"Ground", "Flying"}
          /\ isOptionalFlyingSquadUnit(getType(u))
       \/ /\ squads'[T].priority = BaseDefensePriority
          /\ released(u, S)

\* A step moves the unit as the policies move units.
movedByPolicy(u) ==
    LET S == getUnitSquad(squads, u)
        T == getUnitSquad(squads', u)
    IN /\ Cardinality(squadsOf(squads', u)) <= 1
       /\ (S # T /\ S # NoSquad) =>
              IF T = NoSquad THEN released(u, S) ELSE taken(u, S, T)
       /\ (S # T /\ S = NoSquad) => pc = policyOf(squads', T)

----------------------------------------------------------------------------
\* The loops of updateDefenseSquadUnits.

\* The needs the loops are run with.
MaxFlyingNeed == 2
MaxGroundNeed == 6

\* The counts updateDefenseSquadUnits starts its loops with.
countedDefenders(name) ==
    LET members == squads[name].units
    IN [sq |-> squads,
        flyingDefendersAdded |-> Cardinality({u \in members : CanAttackAir(u)}),
        groundDefendersAdded |-> SumWorth(InOrder(members)),
        workersInGroup |-> Cardinality({u \in members : isWorker(getType(u))}),
        failed |-> {}]

\* The units a loop moved into the squad: they could be assigned to the squad
\* before the loop and cannot be afterwards.
recruitedBy(before, after, name) ==
    LET new == after.sq[name].units \ before.sq[name].units
    IN /\ before.sq[name].units \subseteq after.sq[name].units
       /\ \A u \in new : /\ canAssignUnitToSquad(before.sq, u, name)
                         /\ ~canAssignUnitToSquad(after.sq, u, name)

\* The flying loop counted one for each unit it moved into the squad.
flyingLoopRecruits(before, after, name) ==
    /\ recruitedBy(before, after, name)
    /\ after.flyingDefendersAdded - before.flyingDefendersAdded
           = Cardinality(after.sq[name].units \ before.sq[name].units)

\* The ground loop counted each unit it moved into the squad for its worth.
groundLoopRecruits(before, after, name) ==
    /\ recruitedBy(before, after, name)
    /\ after.groundDefendersAdded - before.groundDefendersAdded
           = SumWorth(InOrder(after.sq[name].units \ before.sq[name].units))

\* The excess-worker loop counted one for each worker it took out of the squad.
excessLoopRemoves(before, after, name) ==
    LET removed == before.sq[name].units \ after.sq[name].units
    IN /\ after.sq[name].units \subseteq before.sq[name].units
       /\ \A u \in removed : isWorker(getType(u))
       /\ before.groundDefendersAdded - after.groundDefendersAdded = Cardinality(removed)

\* The three loops run one after another for the squad and the needs.
loopsEnd(name, flyingDefendersNeeded, groundDefendersNeeded, pullWorkers) ==
    LET counted == countedDefenders(name)
        excess(grounded) ==
            excessLoopRemoves(grounded,
                              RemoveExcessWorkers(grounded, name, groundDefendersNeeded),
                              name)
        ground(flown) ==
            LET after(grounded) ==
                    groundLoopRecruits(flown, grounded, name) /\ excess(grounded)
            IN after(GroundLoop(flown, name, groundDefendersNeeded, pullWorkers))
        flying(flown) == flyingLoopRecruits(counted, flown, name) /\ ground(flown)
    IN flying(FlyingLoop(counted, name, flyingDefendersNeeded))

\* C38: updateDefenseSquadUnits terminates for every roster and every pair of
\* needs: the flying loop and the ground loop each end having moved into the
\* defense squad, once for each pass that did not exit, a unit that the squad
\* could take before and cannot take afterwards, and the excess-worker loop
\* ends having taken one worker out of the squad in each pass.  The loops are
\* run from the squads as updateBaseDefenseSquads finds them.
C38_LoopsEnd ==
    pc = "baseDefense" =>
        \A name \in defenseSquads :
            \A f \in 0..MaxFlyingNeed, g \in 0..MaxGroundNeed, pullWorkers \in BOOLEAN :
                (f # 0 \/ g # 0) => loopsEnd(name, f, g, pullWorkers)

\* C38 witness: updateBaseDefenseSquads is about to run with a defense squad
\* for which, with some needs, the flying loop recruits a unit, the ground loop
\* recruits two and the excess-worker loop takes a probe out.
C38_Witness ==
    /\ pc = "baseDefense"
    /\ \E name \in defenseSquads :
           \E f \in 1..MaxFlyingNeed, g \in 1..MaxGroundNeed :
               LET counted == countedDefenders(name)
                   flown == FlyingLoop(counted, name, f)
                   grounded == GroundLoop(flown, name, g, TRUE)
                   trimmed == RemoveExcessWorkers(grounded, name, g)
               IN /\ flown.sq[name].units # counted.sq[name].units
                  /\ Cardinality(grounded.sq[name].units \ flown.sq[name].units) >= 2
                  /\ trimmed.sq[name].units # grounded.sq[name].units

----------------------------------------------------------------------------
\* The commands to the bunkers.

ourBunkers == {o \in scene.ours : o.type = "Terran_Bunker"}
loadsOf(b) == {c \in issued : c[1] = "load" /\ c[2] = b.id}
unloadsOf(b) == {c \in issued : c[1] = "unloadAll" /\ c[2] = b.id}

\* An enemy unit within 12 * 32 of the bunker, or a vulture or a mutalisk
\* within 18 * 32.
threatened(b) ==
    \E e \in scene.enemies :
        \/ getDistance(e.pos, b.pos) <= 12 * 32
        \/ /\ e.type \in {"Terran_Vulture", "Zerg_Mutalisk"}
           /\ getDistance(e.pos, b.pos) <= 18 * 32

\* Our living marines within 12 * 32 of the bunker.
marinesBy(b) ==
    {u \in Units : /\ u \notin dead
                   /\ getType(u) = "Terran_Marine"
                   /\ getDistance(unitPosition(u), b.pos) <= 12 * 32}

\* loadOrUnloadBunkers has run in this call of update().
bunkersRan == pc = "squads" /\ world.race = "Terran"

\* C39: in every call, loadOrUnloadBunkers gives each of our bunkers at most
\* one command.  If an enemy unit is within 12 * 32 of the bunker, or a vulture
\* or a mutalisk within 18 * 32, it gives no unloadAll, and it gives a load, of
\* one of our marines within 12 * 32, exactly if the bunker has space left and
\* there is such a marine; otherwise it gives one unloadAll and no load.
C39_BunkerCommands ==
    bunkersRan =>
        \A b \in ourBunkers :
            /\ Cardinality(loadsOf(b)) + Cardinality(unloadsOf(b)) <= 1
            /\ threatened(b) =>
                   /\ unloadsOf(b) = {}
                   /\ loadsOf(b) # {} <=> (b.spaceRemaining > 0 /\ marinesBy(b) # {})
                   /\ \A c \in loadsOf(b) : c[3] \in marinesBy(b)
            /\ ~threatened(b) =>
                   /\ loadsOf(b) = {}
                   /\ Cardinality(unloadsOf(b)) = 1

\* C39 witness: a bunker loads a marine with no enemy unit within 12 * 32 of
\* it, and another bunker unloads.
C39_Witness ==
    /\ bunkersRan
    /\ \E b \in ourBunkers :
           /\ loadsOf(b) # {}
           /\ \A e \in scene.enemies : getDistance(e.pos, b.pos) > 12 * 32
    /\ \E b \in ourBunkers : unloadsOf(b) # {}

----------------------------------------------------------------------------
\* The size of the opponent model file.

\* How often the record is in the sequence.
timesIn(records, record) == Cardinality({k \in DOMAIN records : records[k] = record})

\* OpponentModel::write runs and writes.
writeRuns == phase = "write" /\ phase' = "over" /\ io.WriteOpponentModel

\* C40: OpponentModel::write writes each record that was read at most once,
\* leaves out the oldest so that with the record of this game no more than
\* MaxGameRecords are written, and so the file never holds more than
\* MaxGameRecords records, however many games are played.
C40_RecordsCapped ==
    /\ [][writeRuns =>
              /\ \A k \in DOMAIN pastGameRecords : timesIn(file', pastGameRecords[k]) <= 1
              /\ Len(file') <= io.MaxGameRecords
              /\ file'[Len(file')] = gameRecord
      ]_vars
    /\ [](Len(file) <= io.MaxGameRecords)

====
